---- MODULE Spec2Model ----
(***************************************************************************)
(* Model of the OG-image generation pipeline of packages/website/scripts. *)
(* The repository holds two implementations of the same pipeline:         *)
(*   impl = "script" : scripts/generate-og.ts (async/await, sequential)   *)
(*   impl = "effect" : scripts/generate-og/{index,template-server,        *)
(*                     browser,capture,spec,config}.ts (Effect layers)    *)
(* Strings are sequences of one-character strings, so that trim, split    *)
(* and trailing-slash stripping are computed as the code computes them.   *)
(* The module also models UpdateNotifier.check of                         *)
(* packages/cli/src/update-notifier.ts (its actions start with UN_).     *)
(***************************************************************************)
EXTENDS Integers, Sequences, FiniteSets, Bags, TLC

\* the absent value (null / undefined); a one-element sequence so that it
\* compares with strings, and no string of the alphabets equals it
NULL == <<"null">>

\* ---------------------------------------------------------------- bounds
MaxDocs == 1          \* documents returned by getAllDocs() in a pipeline run
PickMaxDocs == 2      \* documents in a candidate list given to pickSpecs alone
MaxOnlyLen == 3       \* characters of the OG_ONLY value given to pickSpecs alone

\* ------------------------------------------------------ program constants
READY_TIMEOUT_MS == 45000
POLL_INTERVAL_MS == 500
CHECK_INTERVAL_MS == 86400000   \* UpdateNotifierConfig.layer: checkInterval

\* ---------------------------------------------------------------- strings
RECURSIVE TrimStart(_)
TrimStart(s) ==
  IF s # <<>> /\ Head(s) = " " THEN TrimStart(Tail(s)) ELSE s

RECURSIVE TrimEnd(_)
TrimEnd(s) ==
  IF s # <<>> /\ s[Len(s)] = " " THEN TrimEnd(SubSeq(s, 1, Len(s) - 1)) ELSE s

\* String.prototype.trim
Trim(s) == TrimEnd(TrimStart(s))

\* s.replace(/\/$/, "") : drops one trailing slash
StripTrailingSlash(s) ==
  IF s # <<>> /\ s[Len(s)] = "/" THEN SubSeq(s, 1, Len(s) - 1) ELSE s

\* s.split(",") : always at least one piece
RECURSIVE SplitComma(_, _)
SplitComma(s, cur) ==
  IF s = <<>> THEN <<cur>>
  ELSE IF Head(s) = "," THEN <<cur>> \o SplitComma(Tail(s), <<>>)
  ELSE SplitComma(Tail(s), Append(cur, Head(s)))

RECURSIVE FilterNonEmpty(_)
FilterNonEmpty(ss) ==
  IF ss = <<>> THEN <<>>
  ELSE IF Head(ss) = <<>> THEN FilterNonEmpty(Tail(ss))
  ELSE <<Head(ss)>> \o FilterNonEmpty(Tail(ss))

MapTrim(ss) == [i \in 1..Len(ss) |-> Trim(ss[i])]

Range(f) == {f[i] : i \in DOMAIN f}

\* --------------------------------------------------------- config.ts
\* getOnlyFilter: (process.env.OG_ONLY ?? "").split(",").map(trim).filter(Boolean)
getOnlyFilter(env) ==
  FilterNonEmpty(MapTrim(SplitComma(IF env = NULL THEN <<>> ELSE env, <<>>)))

\* variant of getBaseUrl: OG_BASE_URL is not consulted
getBaseUrl_ignored(env) == NULL

\* getBaseUrl (effect): process.env.OG_BASE_URL?.trim().replace(/\/$/, "") ?? null
getBaseUrl(env) ==
  IF env = NULL THEN NULL ELSE StripTrailingSlash(Trim(env))

\* JavaScript truthiness of a string-or-null value
Truthy(v) == v # NULL /\ v # <<>>

OUTPUT_DIR == <<"o">>          \* path.join(process.cwd(), "public", "og")

\* path.join(OUTPUT_DIR, `${spec.slug}.png`)
filePath(slug) == OUTPUT_DIR \o <<"/">> \o slug \o <<".png">>

\* ------------------------------------------------- the template URL
TEMPLATE_ROUTE == <<"/", "t">>

\* new URL(TEMPLATE_ROUTE, baseUrl): the route is an absolute path, so the
\* result keeps the origin of the base and drops its path and its query
RECURSIVE UrlOrigin(_)
UrlOrigin(base) ==
  IF base = <<>> \/ Head(base) \in {"/", "?"} THEN <<>>
  ELSE <<Head(base)>> \o UrlOrigin(Tail(base))

\* Object.entries(spec): own keys in insertion order; a key that is absent
\* and a key holding undefined both show as NULL and are both skipped below
Entries(spec) ==
  <<<<"slug", spec.slug>>, <<"title", spec.title>>,
    <<"subtitle", spec.subtitle>>, <<"background", spec.background>>>>

\* URLSearchParams.delete(name)
ParamsDelete(params, name) == SelectSeq(params, LAMBDA q : q[1] # name)

\* URLSearchParams.set(name, value): the first pair of that name takes the
\* value and the others are removed; with no such pair, one is appended
ParamsSet(params, name, value) ==
  IF \E k \in 1..Len(params) : params[k][1] = name
  THEN LET first == CHOOSE k \in 1..Len(params) :
                      /\ params[k][1] = name
                      /\ \A j \in 1..(k - 1) : params[j][1] # name
           keep == {k \in 1..Len(params) : params[k][1] # name \/ k = first}
           F[k \in 0..Len(params)] ==
             IF k = 0 THEN <<>>
             ELSE IF k \notin keep THEN F[k - 1]
             ELSE IF k = first THEN Append(F[k - 1], <<name, value>>)
             ELSE Append(F[k - 1], params[k])
       IN F[Len(params)]
  ELSE Append(params, <<name, value>>)

\* variant of SetEntries: only empty values are skipped, the slug is sent
RECURSIVE SetEntries_withSlug(_, _)
SetEntries_withSlug(entries, params) ==
  IF entries = <<>> THEN params
  ELSE LET key == Head(entries)[1]
           value == Head(entries)[2]
       IN SetEntries_withSlug(Tail(entries),
                     IF ~Truthy(value) THEN params
                     ELSE ParamsSet(params, key, value))

\* captureSpec: for each [key, value] of the spec, skip the slug and a falsy
\* value, else params.set(key, value)
RECURSIVE SetEntries(_, _)
SetEntries(entries, params) ==
  IF entries = <<>> THEN params
  ELSE LET key == Head(entries)[1]
           value == Head(entries)[2]
       IN SetEntries(Tail(entries),
                     IF key = "slug" \/ ~Truthy(value) THEN params
                     ELSE ParamsSet(params, key, value))

\* application/x-www-form-urlencoded serialisation of one name or value
\* (a name is one token of the text)
RECURSIVE UrlEncode(_)
UrlEncode(t) ==
  IF t = <<>> THEN <<>>
  ELSE (CASE Head(t) = " " -> <<"+">>
          [] Head(t) = "+" -> <<"%", "2", "B">>
          [] Head(t) = "&" -> <<"%", "2", "6">>
          [] Head(t) = "=" -> <<"%", "3", "D">>
          [] Head(t) = "%" -> <<"%", "2", "5">>
          [] Head(t) = "?" -> <<"%", "3", "F">>
          [] OTHER -> <<Head(t)>>) \o UrlEncode(Tail(t))

RECURSIVE SerializeParams(_)
SerializeParams(params) ==
  IF params = <<>> THEN <<>>
  ELSE <<params[1][1], "=">> \o UrlEncode(params[1][2])
       \o (IF Len(params) > 1 THEN <<"&">> ELSE <<>>)
       \o SerializeParams(Tail(params))

\* templateURL.toString()
UrlToString(origin, route, params) ==
  origin \o route \o
  (IF params = <<>> THEN <<>> ELSE <<"?">> \o SerializeParams(params))

\* generate-og.ts captureSpec: the URL given to page.goto
S_templateURL(spec, baseUrl) ==
  UrlToString(UrlOrigin(baseUrl), TEMPLATE_ROUTE,
              SetEntries(Entries(spec), ParamsDelete(<<>>, "slug")))

\* capture.ts captureSpec: the URL given to page.goto
E_templateURL(spec, baseUrl) ==
  UrlToString(UrlOrigin(baseUrl), TEMPLATE_ROUTE,
              SetEntries(Entries(spec), <<>>))

\* ----------------------------------------------------------- spec.ts
HOME_SLUG == <<"h">>
DEFAULT_SUBTITLE == <<"B">>

homeSpec ==
  [slug |-> HOME_SLUG, title |-> <<"E">>,
   subtitle |-> <<"H">>, background |-> NULL]

\* buildDocSpecs: [homeSpec, ...docs.map(...)], description ?? default
buildDocSpecs(docs) ==
  <<homeSpec>> \o
  [i \in 1..Len(docs) |->
     [slug |-> docs[i].slug, title |-> docs[i].title,
      subtitle |-> IF docs[i].description = NULL
                   THEN DEFAULT_SUBTITLE ELSE docs[i].description,
      background |-> NULL]]

\* variant of dedupeLoop: a repeated slug replaces the record kept so far
RECURSIVE dedupeLoop_keepLast(_, _, _, _)
dedupeLoop_keepLast(rest, seen, unique, warns) ==
  IF rest = <<>> THEN [unique |-> unique, warns |-> warns]
  ELSE LET spec == Head(rest) IN
       IF spec.slug \in seen
       THEN dedupeLoop_keepLast(Tail(rest), seen,
              [i \in 1..Len(unique) |->
                 IF unique[i].slug = spec.slug THEN spec ELSE unique[i]],
              Append(warns, [kind |-> "duplicate", slug |-> spec.slug]))
       ELSE dedupeLoop_keepLast(Tail(rest), seen \cup {spec.slug},
                                Append(unique, spec), warns)

\* dedupeSpecs: the loop over specs with the `seen` set; returns the unique
\* list and the warnings printed (one per skipped duplicate)
RECURSIVE dedupeLoop(_, _, _, _)
dedupeLoop(rest, seen, unique, warns) ==
  IF rest = <<>> THEN [unique |-> unique, warns |-> warns]
  ELSE LET spec == Head(rest) IN
       IF spec.slug \in seen
       THEN dedupeLoop(Tail(rest), seen, unique,
                       Append(warns, [kind |-> "duplicate", slug |->
                         spec.slug]))
       ELSE dedupeLoop(Tail(rest), seen \cup {spec.slug},
                       Append(unique, spec), warns)

\* variant of dedupeSpecs: every record is kept
dedupeSpecs_none(specs) == [unique |-> specs, warns |-> <<>>]

dedupeSpecs(specs) == dedupeLoop(specs, {}, <<>>, <<>>)

\* variant of FilterOnly: the matches are taken in the order of the
\* allow-list
RECURSIVE FilterOnly_listOrder(_, _)
FilterOnly_listOrder(specs, only) ==
  IF only = <<>> THEN <<>>
  ELSE SelectSeq(specs, LAMBDA x : x.slug = Head(only))
       \o FilterOnly_listOrder(specs, Tail(only))

RECURSIVE FilterOnly(_, _)
FilterOnly(specs, only) ==
  IF specs = <<>> THEN <<>>
  ELSE IF Head(specs).slug \in Range(only)
       THEN <<Head(specs)>> \o FilterOnly(Tail(specs), only)
       ELSE FilterOnly(Tail(specs), only)

\* variant of pickSpecs: an allow-list that matches nothing is still applied
pickSpecs_noFallback(only, cands) ==
  LET d == dedupeSpecs(cands)
      filtered == FilterOnly(d.unique, only)
  IN IF Len(only) = 0
     THEN [specs |-> d.unique, unique |-> d.unique, warns |-> d.warns]
     ELSE [specs |-> filtered, unique |-> d.unique, warns |-> d.warns]

\* pickSpecs: dedupe, then the allow-list with its fallback
pickSpecs(only, cands) ==
  LET d == dedupeSpecs(cands)
      filtered == FilterOnly(d.unique, only)
  IN IF Len(only) = 0
     THEN [specs |-> d.unique, unique |-> d.unique, warns |-> d.warns]
     ELSE IF Len(filtered) = 0
          THEN [specs |-> d.unique, unique |-> d.unique,
                warns |-> Append(d.warns, [kind |-> "fallback", slug |-> NULL])]
          ELSE [specs |-> filtered, unique |-> d.unique, warns |-> d.warns]

\* -------------------------------------------------- update-notifier.ts
DigitChars == <<"0", "1", "2", "3", "4", "5", "6", "7", "8", "9">>

IsDigit(c) == c \in Range(DigitChars)

DigitVal(c) == CHOOSE d \in 0..9 : DigitChars[d + 1] = c

\* decimal text of a natural number, as String(n) gives it
RECURSIVE ToDigits(_)
ToDigits(n) ==
  IF n < 10 THEN <<DigitChars[n + 1]>>
  ELSE Append(ToDigits(n \div 10), DigitChars[(n % 10) + 1])

\* "major.minor.patch" of a published version
FormatVersion(t) ==
  ToDigits(t[1]) \o <<".">> \o ToDigits(t[2]) \o <<".">> \o ToDigits(t[3])

\* v.split(".")
RECURSIVE SplitDot(_, _)
SplitDot(s, cur) ==
  IF s = <<>> THEN <<cur>>
  ELSE IF Head(s) = "." THEN <<cur>> \o SplitDot(Tail(s), <<>>)
  ELSE SplitDot(Tail(s), Append(cur, Head(s)))

\* the longest prefix of s made of decimal digits
RECURSIVE LeadingDigits(_)
LeadingDigits(s) ==
  IF s # <<>> /\ IsDigit(Head(s))
  THEN <<Head(s)>> \o LeadingDigits(Tail(s)) ELSE <<>>

RECURSIVE DigitsValue(_, _)
DigitsValue(ds, acc) ==
  IF ds = <<>> THEN acc
  ELSE DigitsValue(Tail(ds), 10 * acc + DigitVal(Head(ds)))

\* Number.parseInt(x, 10) || 0 : leading blanks skipped, an optional sign,
\* then the leading digits; NaN (no digit) and 0 both give 0
parsePart(x) ==
  LET t == TrimStart(x)
      neg == t # <<>> /\ Head(t) = "-"
      rest == IF t # <<>> /\ Head(t) \in {"-", "+"} THEN Tail(t) ELSE t
      ds == LeadingDigits(rest)
  IN IF ds = <<>> THEN 0
     ELSE IF neg THEN 0 - DigitsValue(ds, 0) ELSE DigitsValue(ds, 0)

\* isNewer.parseParts: v.split(".").map((x) => Number.parseInt(x, 10) || 0)
parseParts(v) ==
  LET ps == SplitDot(v, <<>>) IN [i \in 1..Len(ps) |-> parsePart(ps[i])]

\* array destructuring with default 0: const [major = 0, minor = 0, patch = 0]
PartOr0(parts, k) == IF k <= Len(parts) THEN parts[k] ELSE 0

\* variant of isNewer: the patch comparison uses >= instead of >
isNewer_orEqual(latest, current) ==
  LET l == parseParts(latest)
      c == parseParts(current)
  IN IF PartOr0(l, 1) # PartOr0(c, 1) THEN PartOr0(l, 1) > PartOr0(c, 1)
     ELSE IF PartOr0(l, 2) # PartOr0(c, 2) THEN PartOr0(l, 2) > PartOr0(c, 2)
     ELSE PartOr0(l, 3) >= PartOr0(c, 3)

\* isNewer(latest, current)
isNewer(latest, current) ==
  LET l == parseParts(latest)
      c == parseParts(current)
  IN IF PartOr0(l, 1) # PartOr0(c, 1) THEN PartOr0(l, 1) > PartOr0(c, 1)
     ELSE IF PartOr0(l, 2) # PartOr0(c, 2) THEN PartOr0(l, 2) > PartOr0(c, 2)
     ELSE PartOr0(l, 3) > PartOr0(c, 3)

\* ----------------------------------------------------------------- inputs
\* sequences over S of length at most n
SeqUpTo(S, n) == UNION {[1..k -> S] : k \in 0..n}

\* a document as getAllDocs() returns it (slug, title, description?)
DocRecords(slugs, titles, descs) ==
  [slug : slugs, title : titles, description : descs]

\* getAllDocs() results of a pipeline run: "x.md" next to "x.mdx", or a
\* "home.md", gives a repeated slug
MainDocs == SeqUpTo(DocRecords({<<"a">>, HOME_SLUG}, {<<"T">>}, {NULL}),
                                  MaxDocs)
MainOnly == {NULL, <<"a">>, <<"z">>}

\* inputs of captureSpec checked on its own: TemplateFields records (title a
\* string, subtitle and background optional) and base URLs as getBaseUrl
\* returns them
NavSpecs ==
  [slug : {<<"a">>, HOME_SLUG},
   title : {<<>>, <<"T">>, <<"=">>},
   subtitle : {NULL, <<>>, <<"S">>, <<"x", " ", "&", "=", "%", "+", "?">>},
   background : {NULL, <<>>, <<"g">>}]
NavBases == {<<"u">>, <<"u", "/", "p", "?", "slug", "=", "x">>}

\* inputs of pickSpecs checked on its own
PickDocs ==
  SeqUpTo(DocRecords({<<"a">>, <<"b">>, HOME_SLUG}, {<<"T">>, <<"U">>}, {NULL}),
          PickMaxDocs)
PickOnly == {NULL} \cup SeqUpTo({"a", "b", "z", ",", " "}, MaxOnlyLen)

\* values of OG_BASE_URL and NEXT_DEFAULT_DEV_BASE_URL
BaseUrlInputs ==
  {NULL, <<>>, <<"/">>, <<"u">>, <<"u", "/">>, <<" ", "u", "/", " ">>}
DefaultDevInputs == {NULL, <<>>, <<"d", "/">>}

LOCAL_IP_3000 == <<"i">>       \* "http://127.0.0.1:3000"
LOCALHOST_3000 == <<"l">>      \* "http://localhost:3000"
EPHEMERAL_BASE == <<"e">>      \* `http://127.0.0.1:${port}`

ExitCodes == {0, 1}
\* time one fetch of the readiness poll takes, in ms
FetchDurations == {0, POLL_INTERVAL_MS}

\* version numbers used for major, minor and patch: one and two digits
VersionParts == {0, 9, 10}

\* a published version: its numbers and the text the program is given
Versions ==
  {[nums |-> t, text |-> FormatVersion(t)] :
     t \in VersionParts \X VersionParts \X VersionParts}

\* no version: an absent `latest` / `version` field, Option.none of fetchLatest
NoVersion == [nums |-> <<>>, text |-> NULL]

\* Option.none of readCache
NoCache == [some |-> FALSE, latest |-> NoVersion, nextCheck |-> 0]

\* versions the registry answers with
FetchedVersions ==
  {v \in Versions : v.nums \in {<<0, 9, 10>>, <<9, 10, 0>>, <<10, 0, 9>>}}

NOW == 5     \* Date.now() of the check, in ms
\* nextCheck values of a cache file: before, at and after the current time
NextChecks == {NOW - 1, NOW, NOW + 1}

\* content of ~/.config/<pkg>/update.json: no file, an empty file, text that
\* JSON.parse rejects, an object without `latest`, or a CacheFile
CacheFiles ==
  {[kind |-> k, latest |-> NoVersion, nextCheck |-> 0] :
     k \in {"absent", "empty", "corrupt"}}
  \cup {[kind |-> "partial", latest |-> NoVersion, nextCheck |-> n] :
          n \in NextChecks}
  \cup {[kind |-> "record", latest |-> v, nextCheck |-> n] :
          v \in Versions, n \in NextChecks}

\* ------------------------------------------------------------------ state
VARIABLES
  isCi,          \* config.isCi
  now,           \* check: const now = Date.now()
  cacheFile,     \* content of the cache file
  currentVersion,\* check: the currentVersion argument
  unPc,          \* check: "off","start","read","fresh","fetch","write","compare","done","died"
  cached,        \* check: the value of readCache
  fetched,       \* check: the value of fetchLatest
  reads,         \* readFile calls on the cache file
  fetches,       \* registry fetches issued
  cacheWrites,   \* writeFile calls on the cache file
  logged,        \* update hints printed by logUpdate: <<current, latest>>
  impl,          \* "script" or "effect"
  pc,            \* position of main() / program
  exitCode,      \* process exit code, -1 while running
  runErr,        \* first failure of the run: "none", "server", "launch", "capture", "close"
  candIn,        \* buildDocSpecs() result given to dedupeSpecs
  onlyEnv,       \* OG_ONLY as read
  unique,        \* pickSpecs: the de-duplicated list (its local `specs`)
  specs,         \* the effective job list
  warnings,      \* warnings printed by dedupeSpecs / pickSpecs
  baseUrlEnv,    \* OG_BASE_URL as read
  cands,         \* findExistingDevServer: candidates
  candIdx,       \* findExistingDevServer: loop index
  discProbes,    \* discovery probes issued
  probeLog,      \* discovery probes in issue order: [cand, out]
  discFound,     \* the candidate whose probe answered with a success status
  srvPc,         \* acquire: "idle","discover","spawn","wait","ready","failed","interrupted"
  srvErr,        \* "none","timeout","exit","probeTimeout"
  srvErrCode,    \* exit code carried by the server-start failure
  handle,        \* [baseUrl, owned]
  procState,     \* child: "none","running","terminating","exited"
  procExitCode,
  earlyExit,     \* the child exited while the readiness wait was running
  spawnCount,    \* server processes spawned
  termCalls,     \* invocations of the server's terminate (close() / scope release)
  signals,       \* kill() calls on the child
  exitWaits,     \* waits on the child's exit started by the teardown
  elapsed,       \* waitForServer: ms since its start
  pollPc,        \* waitForServer: "off","check","fetch","sleep"
  readyProbed,   \* a readiness probe has been issued
  readyOk,       \* a readiness probe has returned a success status
  brPc,          \* browser: "none","launching","open","closed","launchFailed"
  launchCount,   \* browsers launched
  brCloseCalls,  \* browser.close() calls
  jobPc,         \* per job: position of captureSpec
  jobIdx,        \* script: index of the job being captured
  pageOpens,     \* per job: successful newPage calls
  pageCloses,    \* per job: page.close() calls
  navUrl,        \* per job: the URL given to page.goto, <<>> before
  jobLog,        \* per job: its start and the browser operations settled, in order
  files          \* bag of the paths written by page.screenshot (one copy per write)

unVars ==
  <<isCi, now, cacheFile, currentVersion, unPc, cached, fetched, reads,
    fetches, cacheWrites, logged>>

vars ==
  <<unVars, impl, pc, exitCode, runErr, candIn, onlyEnv, unique, specs, warnings,
    baseUrlEnv, cands, candIdx, discProbes, probeLog, discFound, srvPc, srvErr,
    srvErrCode, handle, procState, procExitCode, earlyExit, spawnCount,
      termCalls, signals, exitWaits, elapsed, pollPc,
    readyProbed, readyOk, brPc, launchCount, brCloseCalls, jobPc, jobIdx, pageOpens,
    pageCloses, jobLog, navUrl, files>>

pickVars == <<candIn, onlyEnv, unique, specs, warnings>>
srvVars ==
  <<baseUrlEnv, cands, candIdx, discProbes, probeLog, discFound, srvPc, srvErr,
    srvErrCode, handle,
    elapsed, pollPc, readyProbed, readyOk>>
procVars ==
  <<procState, procExitCode, earlyExit, spawnCount, termCalls, signals,
    exitWaits>>
brVars == <<brPc, launchCount, brCloseCalls>>
jobVars == <<jobPc, jobIdx, pageOpens, pageCloses, jobLog, navUrl, files>>

NoHandle == [baseUrl |-> NULL, owned |-> FALSE]

\* no update check is in progress
UN_Off ==
  /\ isCi = FALSE /\ now = 0 /\ unPc = "off"
  /\ cacheFile = [kind |-> "absent", latest |-> NoVersion, nextCheck |-> 0]
  /\ currentVersion = NoVersion /\ cached = NoCache /\ fetched = NoVersion
  /\ reads = 0 /\ fetches = 0 /\ cacheWrites = 0 /\ logged = <<>>

InitCommon ==
  /\ UN_Off
  /\ exitCode = -1 /\ runErr = "none"
  /\ candIn = <<>> /\ onlyEnv = NULL /\ unique = <<>> /\ specs = <<>>
  /\ warnings = <<>>
  /\ baseUrlEnv = NULL /\ cands = <<>> /\ candIdx = 0 /\ discProbes = 0 /\ probeLog = <<>>
  /\ discFound = NULL
  /\ srvPc = "idle" /\ srvErr = "none" /\ srvErrCode = -1 /\ handle = NoHandle
  /\ procState = "none" /\ procExitCode = -1 /\ earlyExit = FALSE
  /\ spawnCount = 0
  /\ termCalls = 0 /\ signals = 0 /\ exitWaits = 0
  /\ elapsed = 0 /\ pollPc = "off" /\ readyProbed = FALSE /\ readyOk = FALSE
  /\ brPc = "none" /\ launchCount = 0 /\ brCloseCalls = 0
  /\ jobPc = <<>> /\ jobIdx = 0 /\ pageOpens = <<>> /\ pageCloses = <<>>
  /\ jobLog = <<>> /\ navUrl = <<>>
  /\ files = EmptyBag

\* script: main() is entered; effect: MainLayer starts building
Init ==
  /\ impl \in {"script", "effect"}
  /\ pc = IF impl = "script" THEN "start" ELSE "build"
  /\ InitCommon

\* the job list is fixed: every job starts pending
SetJobs(r) ==
  /\ specs' = r.specs
  /\ unique' = r.unique
  /\ warnings' = r.warns
  /\ jobPc' = [i \in 1..Len(r.specs) |-> "pending"]
  /\ pageOpens' = [i \in 1..Len(r.specs) |-> 0]
  /\ pageCloses' = [i \in 1..Len(r.specs) |-> 0]
  /\ jobLog' = [i \in 1..Len(r.specs) |-> <<>>]
  /\ navUrl' = [i \in 1..Len(r.specs) |-> <<>>]

FilterTruthy(ss) ==
  FilterNonEmpty([i \in 1..Len(ss) |-> IF ss[i] = NULL THEN <<>> ELSE ss[i]])

\* the candidates array of findExistingDevServer
Candidates(defaultDev) == FilterTruthy(<<defaultDev, LOCAL_IP_3000,
                                         LOCALHOST_3000>>)

\* =====================================================================
\* impl = "script" : scripts/generate-og.ts
\* =====================================================================

\* main(): mkdirSync, pickSpecs(), the empty-list return
S_pickSpecsFrom(D, O) ==
  /\ impl = "script" /\ pc = "start"
  /\ \E docs \in D, env \in O :
       LET cin == buildDocSpecs(docs)
           r == pickSpecs(getOnlyFilter(env), cin)
       IN /\ candIn' = cin /\ onlyEnv' = env
          /\ SetJobs(r)
          /\ IF Len(r.specs) = 0
             THEN pc' = "exit" /\ exitCode' = 0
             ELSE pc' = "acquire" /\ exitCode' = exitCode
  /\ UNCHANGED <<unVars, impl, runErr, srvVars, procVars, brVars, jobIdx, files>>

S_main_pickSpecs == S_pickSpecsFrom(MainDocs, MainOnly)

\* main().catch: console.error, process.exit(1)
S_Reject(kind) == pc' = "exit" /\ exitCode' = 1 /\ runErr' = kind

\* ensureTemplateServer: the OG_BASE_URL branch, else the candidate list
S_ensureTemplateServer ==
  /\ impl = "script" /\ pc = "acquire" /\ srvPc = "idle"
  /\ \E env \in BaseUrlInputs, dd \in DefaultDevInputs :
       /\ baseUrlEnv' = env
       /\ IF Truthy(env)
          THEN /\ handle' = [baseUrl |-> StripTrailingSlash(Trim(env)),
                             owned |-> FALSE]
               /\ srvPc' = "ready" /\ pc' = "launch"
               /\ UNCHANGED <<cands, candIdx>>
          ELSE /\ srvPc' = "discover" /\ cands' = Candidates(dd) /\ candIdx' = 1
               /\ UNCHANGED <<handle, pc>>
  /\ UNCHANGED <<unVars, impl, exitCode, runErr, pickVars, discProbes, probeLog, discFound,
                 srvErr, srvErrCode,
                 elapsed, pollPc, readyProbed, readyOk, procVars, brVars, jobVars>>

\* outcomes of a probe: a success status ("ok"); a non-success status or a
\* failed connection ("bad": the probe gives false); no answer within the
\* timeout
ProbeOutcomes == {"ok", "bad", "timeout"}

\* a discovery probe has been issued and has not settled
Probing == probeLog # <<>> /\ probeLog[Len(probeLog)].out = "pending"

\* fetch(url) of a candidate's template route is issued
ProbeIssue(cand) ==
  /\ discProbes' = discProbes + 1
  /\ probeLog' = Append(probeLog, [cand |-> cand, out |-> "pending"])

\* the probe in flight settles, or is aborted
ProbeSettle(out) ==
  /\ discProbes' = discProbes
  /\ probeLog' = [probeLog EXCEPT ![Len(probeLog)].out = out]

\* variant of S_findExistingDevServer: the reachability test is inverted
S_findExistingDevServer_inverted ==
  /\ impl = "script" /\ pc = "acquire" /\ srvPc = "discover"
  /\ IF ~Probing
     THEN /\ ProbeIssue(cands[candIdx])
          /\ UNCHANGED <<discFound, handle, srvPc, pc, cands, candIdx>>
     ELSE \E out \in ProbeOutcomes :
       LET reachable == (out # "ok") IN
       /\ ProbeSettle(out)
       /\ discFound' = IF out = "ok" THEN cands[candIdx] ELSE discFound
       /\ IF reachable
          THEN /\ handle' = [baseUrl |-> StripTrailingSlash(cands[candIdx]),
                             owned |-> FALSE]
               /\ srvPc' = "ready" /\ pc' = "launch"
               /\ cands' = <<>> /\ candIdx' = 0
          ELSE /\ IF candIdx < Len(cands)
                  THEN candIdx' = candIdx + 1 /\ srvPc' = srvPc /\ cands' = cands
                  ELSE candIdx' = 0 /\ srvPc' = "spawn" /\ cands' = <<>>
               /\ UNCHANGED <<handle, pc>>
  /\ UNCHANGED <<unVars, impl, exitCode, runErr, pickVars, baseUrlEnv, srvErr,
                 srvErrCode,
                 elapsed, pollPc, readyProbed, readyOk, procVars, brVars, jobVars>>

\* findExistingDevServer + isServerReachable: one loop iteration, in two
\* steps: fetch(url) is issued, then it settles; an abort after 1000 ms or a
\* fetch error is caught and gives false
S_findExistingDevServer ==
  /\ impl = "script" /\ pc = "acquire" /\ srvPc = "discover"
  /\ IF ~Probing
     THEN /\ ProbeIssue(cands[candIdx])
          /\ UNCHANGED <<discFound, handle, srvPc, pc, cands, candIdx>>
     ELSE \E out \in ProbeOutcomes :
       LET reachable == (out = "ok") IN
       /\ ProbeSettle(out)
       /\ discFound' = IF out = "ok" THEN cands[candIdx] ELSE discFound
       /\ IF reachable
          THEN /\ handle' = [baseUrl |-> StripTrailingSlash(cands[candIdx]),
                             owned |-> FALSE]
               /\ srvPc' = "ready" /\ pc' = "launch"
               /\ cands' = <<>> /\ candIdx' = 0
          ELSE /\ IF candIdx < Len(cands)
                  THEN candIdx' = candIdx + 1 /\ srvPc' = srvPc /\ cands' = cands
                  ELSE candIdx' = 0 /\ srvPc' = "spawn" /\ cands' = <<>>
               /\ UNCHANGED <<handle, pc>>
  /\ UNCHANGED <<unVars, impl, exitCode, runErr, pickVars, baseUrlEnv, srvErr,
                 srvErrCode,
                 elapsed, pollPc, readyProbed, readyOk, procVars, brVars, jobVars>>

\* ensureTemplateServer: spawn("bunx", ["next","dev",...]), waitForServer
\* started, the exit listener registered
S_spawn ==
  /\ impl = "script" /\ pc = "acquire" /\ srvPc = "spawn"
  /\ procState' = "running" /\ spawnCount' = spawnCount + 1
  /\ srvPc' = "wait" /\ pollPc' = "check" /\ elapsed' = 0
  /\ UNCHANGED <<unVars, impl, pc, exitCode, runErr, pickVars, baseUrlEnv, cands,
                 candIdx,
                 discProbes, probeLog, discFound, srvErr, srvErrCode, handle, readyProbed, readyOk,
                 procExitCode, earlyExit, termCalls, signals, exitWaits,
                   brVars, jobVars>>

\* variant of S_waitForServer_check: the timeout is raised by a timer of its
\* own and the poll loop is left where it is
S_waitForServer_check_detached ==
  /\ impl = "script" /\ pc = "acquire" /\ srvPc = "wait" /\ pollPc = "check"
  /\ IF elapsed < READY_TIMEOUT_MS
     THEN /\ pollPc' = "fetch"
          /\ UNCHANGED <<pc, exitCode, runErr, srvPc, srvErr>>
     ELSE /\ pollPc' = pollPc /\ srvPc' = "failed" /\ srvErr' = "timeout"
          /\ S_Reject("server")
  /\ UNCHANGED <<unVars, impl, pickVars, baseUrlEnv, cands, candIdx, discProbes, probeLog,
                 discFound,
                 srvErrCode, handle, elapsed, readyProbed, readyOk, procVars, brVars,
                 jobVars>>

\* waitForServer: the while condition; past the window it throws
S_waitForServer_check ==
  /\ impl = "script" /\ pc = "acquire" /\ srvPc = "wait" /\ pollPc = "check"
  /\ IF elapsed < READY_TIMEOUT_MS
     THEN /\ pollPc' = "fetch"
          /\ UNCHANGED <<pc, exitCode, runErr, srvPc, srvErr>>
     ELSE /\ pollPc' = "off" /\ srvPc' = "failed" /\ srvErr' = "timeout"
          /\ S_Reject("server")
  /\ UNCHANGED <<unVars, impl, pickVars, baseUrlEnv, cands, candIdx, discProbes, probeLog,
                 discFound,
                 srvErrCode, handle, elapsed, readyProbed, readyOk, procVars, brVars,
                 jobVars>>

\* variant of S_waitForServer_fetch: any response ends the wait, response.ok
\* is not looked at
S_waitForServer_fetch_anyResponse ==
  /\ impl = "script" /\ pc = "acquire" /\ srvPc = "wait" /\ pollPc = "fetch"
  /\ \E ok \in BOOLEAN, d \in FetchDurations :
       /\ readyProbed' = TRUE /\ readyOk' = ok
       /\ srvPc' = "ready" /\ pollPc' = "off" /\ elapsed' = 0
       /\ handle' = [baseUrl |-> EPHEMERAL_BASE, owned |-> TRUE]
       /\ pc' = "launch"
  /\ UNCHANGED <<unVars, impl, exitCode, runErr, pickVars, baseUrlEnv, cands, candIdx,
                 discProbes, probeLog, discFound, srvErr, srvErrCode, procVars, brVars,
                   jobVars>>

\* waitForServer: await fetch(url); response.ok returns, and then
\* ensureTemplateServer returns the handle with its close()
S_waitForServer_fetch ==
  /\ impl = "script" /\ pc = "acquire" /\ srvPc = "wait" /\ pollPc = "fetch"
  /\ \E ok \in BOOLEAN, d \in FetchDurations :
       /\ readyProbed' = TRUE /\ readyOk' = ok
       /\ IF ok
          THEN /\ srvPc' = "ready" /\ pollPc' = "off" /\ elapsed' = 0
               /\ handle' = [baseUrl |-> EPHEMERAL_BASE, owned |-> TRUE]
               /\ pc' = "launch"
          ELSE /\ pollPc' = "sleep" /\ elapsed' = elapsed + d
               /\ UNCHANGED <<srvPc, handle, pc>>
  /\ UNCHANGED <<unVars, impl, exitCode, runErr, pickVars, baseUrlEnv, cands, candIdx,
                 discProbes, probeLog, discFound, srvErr, srvErrCode, procVars, brVars,
                   jobVars>>

\* waitForServer: setTimeout(resolve, 500)
S_waitForServer_sleep ==
  /\ impl = "script" /\ pc = "acquire" /\ srvPc = "wait" /\ pollPc = "sleep"
  /\ elapsed' = elapsed + POLL_INTERVAL_MS /\ pollPc' = "check"
  /\ UNCHANGED <<unVars, impl, pc, exitCode, runErr, pickVars, baseUrlEnv, cands,
                 candIdx,
                 discProbes, probeLog, discFound, srvPc, srvErr, srvErrCode, handle,
                   readyProbed, readyOk,
                 procVars, brVars, jobVars>>

\* the child exits; child.once("exit") of exitPromise rejects the race when
\* ensureTemplateServer is still awaiting it, and the close() listener
\* resolves when the teardown is awaiting the exit
S_childExit ==
  /\ impl = "script" /\ pc # "exit" /\ procState \in {"running", "terminating"}
  /\ \E code \in ExitCodes :
       /\ procState' = "exited" /\ procExitCode' = code
       /\ earlyExit' = (srvPc = "wait")
       /\ IF srvPc = "wait"
          THEN /\ srvPc' = "failed" /\ srvErr' = "exit" /\ srvErrCode' = code
               /\ pollPc' = "off"
               /\ S_Reject("server")
          ELSE /\ UNCHANGED <<srvPc, srvErr, srvErrCode, pollPc>>
               /\ IF pc = "awaitExit"
                  THEN /\ pc' = "exit"
                       /\ exitCode' = IF runErr = "none" THEN 0 ELSE 1
                       /\ runErr' = runErr
                  ELSE UNCHANGED <<pc, exitCode, runErr>>
  /\ UNCHANGED <<unVars, impl, pickVars, baseUrlEnv, cands, candIdx, discProbes, probeLog,
                 discFound, handle,
                 elapsed, readyProbed, readyOk, spawnCount, termCalls, signals,
                 exitWaits,
                 brVars, jobVars>>

\* variant of S_launch: a rejected launch is caught and main() goes on to
\* the capture loop
S_launch_swallowed ==
  /\ impl = "script" /\ pc = "launch"
  /\ \E ok \in BOOLEAN :
       IF ok
       THEN /\ brPc' = "open" /\ launchCount' = launchCount + 1
            /\ pc' = "capture" /\ jobIdx' = 1
            /\ UNCHANGED <<exitCode, runErr>>
       ELSE /\ brPc' = "launchFailed"
            /\ pc' = "capture" /\ jobIdx' = 1
            /\ UNCHANGED <<launchCount, exitCode, runErr>>
  /\ UNCHANGED <<unVars, impl, pickVars, srvVars, procVars, brCloseCalls, jobPc,
                 pageOpens, pageCloses, jobLog, files, navUrl>>

\* main(): const browser = await chromium.launch(), outside the try block
S_launch ==
  /\ impl = "script" /\ pc = "launch"
  /\ \E ok \in BOOLEAN :
       IF ok
       THEN /\ brPc' = "open" /\ launchCount' = launchCount + 1
            /\ pc' = "capture" /\ jobIdx' = 1
            /\ UNCHANGED <<exitCode, runErr>>
       ELSE /\ brPc' = "launchFailed" /\ S_Reject("launch")
            /\ UNCHANGED <<launchCount, jobIdx>>
  /\ UNCHANGED <<unVars, impl, pickVars, srvVars, procVars, brCloseCalls, jobPc,
                 pageOpens, pageCloses, jobLog, files, navUrl>>

\* a throw inside the for loop of main(): control goes to the finally block
S_Throw(kind) == pc' = "finally" /\ runErr' = kind

\* a capture job has ended in failure (effect: the other fibers of the
\* forEach are interrupted)
FailedSeen == \E i \in 1..Len(jobPc) : jobPc[i] = "failed"

\* log entry of a job that starts: "lateStart" when a job had failed before
StartEv == IF FailedSeen THEN "lateStart" ELSE "start"

\* the job being captured starts, or one of its browser operations settles
S_log(evs) == jobLog' = [jobLog EXCEPT ![jobIdx] = @ \o evs]

\* variant of S_captureSpec_newPage: each job launches a browser of its own
\* for its page
S_captureSpec_newPage_ownBrowser ==
  /\ impl = "script" /\ pc = "capture" /\ jobPc[jobIdx] = "pending"
  /\ \E ok \in BOOLEAN :
       IF ok
       THEN /\ jobPc' = [jobPc EXCEPT ![jobIdx] = "page"]
            /\ pageOpens' = [pageOpens EXCEPT ![jobIdx] = @ + 1]
            /\ launchCount' = launchCount + 1
            /\ S_log(<<StartEv, "open">>)
            /\ UNCHANGED <<pc, runErr>>
       ELSE /\ jobPc' = [jobPc EXCEPT ![jobIdx] = "failed"]
            /\ S_Throw("capture")
            /\ S_log(<<StartEv, "openFail">>)
            /\ UNCHANGED <<pageOpens, launchCount>>
  /\ UNCHANGED <<unVars, impl, exitCode, pickVars, srvVars, procVars, brPc,
                 brCloseCalls, jobIdx, pageCloses, files, navUrl>>

\* captureSpec: await browser.newPage(...)
S_captureSpec_newPage ==
  /\ impl = "script" /\ pc = "capture" /\ jobPc[jobIdx] = "pending"
  /\ \E ok \in BOOLEAN :
       IF ok
       THEN /\ jobPc' = [jobPc EXCEPT ![jobIdx] = "page"]
            /\ pageOpens' = [pageOpens EXCEPT ![jobIdx] = @ + 1]
            /\ S_log(<<StartEv, "open">>)
            /\ UNCHANGED <<pc, runErr>>
       ELSE /\ jobPc' = [jobPc EXCEPT ![jobIdx] = "failed"]
            /\ S_Throw("capture")
            /\ S_log(<<StartEv, "openFail">>)
            /\ UNCHANGED pageOpens
  /\ UNCHANGED <<unVars, impl, exitCode, pickVars, srvVars, procVars, brVars, jobIdx,
                 pageCloses, files, navUrl>>

\* captureSpec: await page.goto(templateURL, { waitUntil: "load" })
S_captureSpec_goto ==
  /\ impl = "script" /\ pc = "capture" /\ jobPc[jobIdx] = "page"
  /\ \E ok \in BOOLEAN :
       IF ok
       THEN /\ jobPc' = [jobPc EXCEPT ![jobIdx] = "navigated"]
            /\ S_log(<<"goto">>)
            /\ UNCHANGED <<pc, runErr>>
       ELSE /\ jobPc' = [jobPc EXCEPT ![jobIdx] = "failed"]
            /\ S_Throw("capture")
            /\ S_log(<<"gotoFail">>)
  /\ navUrl' = [navUrl EXCEPT
                  ![jobIdx] = S_templateURL(specs[jobIdx], handle.baseUrl)]
  /\ UNCHANGED <<unVars, impl, exitCode, pickVars, srvVars, procVars, brVars, jobIdx,
                 pageOpens, pageCloses, files>>

\* captureSpec: await page.screenshot({ path: <OUTPUT_DIR>/<slug>.png })
S_captureSpec_screenshot ==
  /\ impl = "script" /\ pc = "capture" /\ jobPc[jobIdx] = "navigated"
  /\ \E ok \in BOOLEAN :
       IF ok
       THEN /\ jobPc' = [jobPc EXCEPT ![jobIdx] = "shot"]
            /\ files' = files (+) SetToBag({filePath(specs[jobIdx].slug)})
            /\ S_log(<<"shot">>)
            /\ UNCHANGED <<pc, runErr>>
       ELSE /\ jobPc' = [jobPc EXCEPT ![jobIdx] = "failed"]
            /\ S_Throw("capture")
            /\ S_log(<<"shotFail">>)
            /\ UNCHANGED files
  /\ UNCHANGED <<unVars, impl, exitCode, pickVars, srvVars, procVars, brVars, jobIdx,
                 pageOpens, pageCloses, navUrl>>

\* captureSpec: await page.close(), the log line, and the next loop iteration
S_captureSpec_close ==
  /\ impl = "script" /\ pc = "capture" /\ jobPc[jobIdx] = "shot"
  /\ pageCloses' = [pageCloses EXCEPT ![jobIdx] = @ + 1]
  /\ S_log(<<"close">>)
  /\ \E ok \in BOOLEAN :
       IF ok
       THEN /\ jobPc' = [jobPc EXCEPT ![jobIdx] = "done"]
            /\ IF jobIdx < Len(specs)
               THEN jobIdx' = jobIdx + 1 /\ pc' = pc
               ELSE jobIdx' = jobIdx /\ pc' = "finally"
            /\ UNCHANGED runErr
       ELSE /\ jobPc' = [jobPc EXCEPT ![jobIdx] = "failed"]
            /\ S_Throw("capture")
            /\ UNCHANGED jobIdx
  /\ UNCHANGED <<unVars, impl, exitCode, pickVars, srvVars, procVars, brVars, pageOpens,
                 files, navUrl>>

\* variant of S_finally_browserClose: browser.close() placed after the loop
\* instead of in the finally block, so a failed capture skips it
S_finally_browserClose_afterLoop ==
  /\ impl = "script" /\ pc = "finally"
  /\ IF runErr = "none"
     THEN /\ brCloseCalls' = brCloseCalls + 1
          /\ \E ok \in BOOLEAN :
               IF ok
               THEN /\ brPc' = "closed" /\ pc' = "finallyServer"
                    /\ UNCHANGED <<exitCode, runErr>>
               ELSE /\ brPc' = brPc /\ S_Reject("close")
     ELSE /\ pc' = "finallyServer"
          /\ UNCHANGED <<brCloseCalls, brPc, exitCode, runErr>>
  /\ UNCHANGED <<unVars, impl, pickVars, srvVars, procVars, launchCount, jobVars>>

\* main(): finally { await browser.close(); ... } ; a rejection of
\* browser.close() leaves the finally block at once
S_finally_browserClose ==
  /\ impl = "script" /\ pc = "finally"
  /\ brCloseCalls' = brCloseCalls + 1
  /\ \E ok \in BOOLEAN :
       IF ok
       THEN /\ brPc' = "closed" /\ pc' = "finallyServer"
            /\ UNCHANGED <<exitCode, runErr>>
       ELSE /\ brPc' = brPc /\ S_Reject("close")
  /\ UNCHANGED <<unVars, impl, pickVars, srvVars, procVars, launchCount, jobVars>>

\* variant of S_finally_serverClose: close() is called whether or not the
\* handle owns a process
S_finally_serverClose_unconditional ==
  /\ impl = "script" /\ pc = "finallyServer"
  /\ termCalls' = termCalls + 1
  /\ signals' = signals + 1
  /\ procState' = IF procState = "running" THEN "terminating" ELSE procState
  /\ exitWaits' = exitWaits + 1
  /\ pc' = "awaitExit"
  /\ UNCHANGED <<unVars, impl, exitCode, runErr, procExitCode, earlyExit, spawnCount,
                 pickVars, srvVars, brVars, jobVars>>

\* main(): await templateServer.close?.() ; close(): kill("SIGTERM") unless
\* child.killed (never set before this call), then the wait for "exit"
S_finally_serverClose ==
  /\ impl = "script" /\ pc = "finallyServer"
  /\ IF ~handle.owned
     THEN /\ pc' = "exit" /\ exitCode' = IF runErr = "none" THEN 0 ELSE 1
          /\ UNCHANGED procVars
     ELSE /\ termCalls' = termCalls + 1
          /\ signals' = signals + 1
          /\ procState' = IF procState = "running" THEN "terminating" ELSE procState
          /\ exitWaits' = exitWaits + 1
          /\ pc' = "awaitExit"
          /\ UNCHANGED <<exitCode, procExitCode, earlyExit, spawnCount>>
  /\ UNCHANGED <<unVars, impl, runErr, pickVars, srvVars, brVars, jobVars>>

\* close() awaits an "exit" event of a child that had exited before close()
\* was called: the event was emitted already and nothing settles the promise.
\* With no handle left open the runtime ends the process with code 0 (the
\* error main() was propagating, if any, is never reported); with a pipe
\* still held open the process stays as it is, so this step may never come.
S_eventLoopEmpty ==
  /\ impl = "script" /\ pc = "awaitExit" /\ procState = "exited"
  /\ pc' = "exit" /\ exitCode' = 0
  /\ UNCHANGED <<unVars, impl, runErr, pickVars, srvVars, procVars, brVars, jobVars>>

\* =====================================================================
\* impl = "effect" : scripts/generate-og/*.ts
\* =====================================================================

\* the layer build is over: both layers built, or one failed and the other
\* fiber has ended
BuildFailed == srvPc = "failed" \/ brPc = "launchFailed"

\* acquireServer: getBaseUrl(), the explicit branch, else the candidate list
E_acquireServer ==
  /\ impl = "effect" /\ pc = "build" /\ srvPc = "idle" /\ ~BuildFailed
  /\ \E env \in BaseUrlInputs, dd \in DefaultDevInputs :
       LET explicitBaseUrl == getBaseUrl(env) IN
       /\ baseUrlEnv' = env
       /\ IF Truthy(explicitBaseUrl)
          THEN /\ handle' = [baseUrl |-> explicitBaseUrl, owned |-> FALSE]
               /\ srvPc' = "ready"
               /\ UNCHANGED <<cands, candIdx>>
          ELSE /\ srvPc' = "discover" /\ cands' = Candidates(dd) /\ candIdx' = 1
               /\ UNCHANGED handle
  /\ UNCHANGED <<unVars, impl, pc, exitCode, runErr, pickVars, discProbes, probeLog, discFound,
                 srvErr,
                 srvErrCode, elapsed, pollPc, readyProbed, readyOk, procVars, brVars,
                 jobVars>>

\* variant of E_findExistingDevServer: a reachable candidate is adopted only
\* when it is the last of the list, the scan goes on past the others
E_findExistingDevServer_noShortCircuit ==
  /\ impl = "effect" /\ pc = "build" /\ srvPc = "discover" /\ ~BuildFailed
  /\ IF ~Probing
     THEN /\ ProbeIssue(cands[candIdx])
          /\ UNCHANGED <<discFound, handle, srvPc, srvErr, cands, candIdx>>
     ELSE \E out \in ProbeOutcomes :
       /\ ProbeSettle(out)
       /\ discFound' = IF out = "ok" THEN cands[candIdx] ELSE discFound
       /\ IF out = "timeout"
          THEN /\ srvPc' = "failed" /\ srvErr' = "probeTimeout"
               /\ cands' = <<>> /\ candIdx' = 0
               /\ UNCHANGED handle
          ELSE /\ srvErr' = srvErr
               /\ IF out = "ok" /\ candIdx = Len(cands)
                  THEN /\ handle' =
                            [baseUrl |-> StripTrailingSlash(cands[candIdx]),
                             owned |-> FALSE]
                       /\ srvPc' = "ready" /\ cands' = <<>> /\ candIdx' = 0
                  ELSE /\ IF candIdx < Len(cands)
                          THEN candIdx' = candIdx + 1 /\ srvPc' = srvPc
                               /\ cands' = cands
                          ELSE candIdx' = 0 /\ srvPc' = "spawn" /\ cands' = <<>>
                       /\ UNCHANGED handle
  /\ UNCHANGED <<unVars, impl, pc, exitCode, runErr, pickVars, baseUrlEnv, srvErrCode,
                 elapsed, pollPc, readyProbed, readyOk, procVars, brVars, jobVars>>

\* findExistingDevServer: one loop iteration, in two steps: the request of
\* checkServer is issued, then it settles; checkServer gives true/false,
\* Effect.timeout("1 second") fails with TimeoutException when it elapses
E_findExistingDevServer ==
  /\ impl = "effect" /\ pc = "build" /\ srvPc = "discover" /\ ~BuildFailed
  /\ IF ~Probing
     THEN /\ ProbeIssue(cands[candIdx])
          /\ UNCHANGED <<discFound, handle, srvPc, srvErr, cands, candIdx>>
     ELSE \E out \in ProbeOutcomes :
       /\ ProbeSettle(out)
       /\ discFound' = IF out = "ok" THEN cands[candIdx] ELSE discFound
       /\ IF out = "timeout"
          THEN /\ srvPc' = "failed" /\ srvErr' = "probeTimeout"
               /\ cands' = <<>> /\ candIdx' = 0
               /\ UNCHANGED handle
          ELSE /\ srvErr' = srvErr
               /\ IF out = "ok"
                  THEN /\ handle' =
                            [baseUrl |-> StripTrailingSlash(cands[candIdx]),
                             owned |-> FALSE]
                       /\ srvPc' = "ready" /\ cands' = <<>> /\ candIdx' = 0
                  ELSE /\ IF candIdx < Len(cands)
                          THEN candIdx' = candIdx + 1 /\ srvPc' = srvPc
                               /\ cands' = cands
                          ELSE candIdx' = 0 /\ srvPc' = "spawn" /\ cands' = <<>>
                       /\ UNCHANGED handle
  /\ UNCHANGED <<unVars, impl, pc, exitCode, runErr, pickVars, baseUrlEnv, srvErrCode,
                 elapsed, pollPc, readyProbed, readyOk, procVars, brVars, jobVars>>

\* startDevServer: Command.start(command), scoped; stdout forwarding forked
E_startDevServer ==
  /\ impl = "effect" /\ pc = "build" /\ srvPc = "spawn" /\ ~BuildFailed
  /\ procState' = "running" /\ spawnCount' = spawnCount + 1
  /\ srvPc' = "wait" /\ pollPc' = "fetch" /\ elapsed' = 0
  /\ UNCHANGED <<unVars, impl, pc, exitCode, runErr, pickVars, baseUrlEnv, cands,
                 candIdx,
                 discProbes, probeLog, discFound, srvErr, srvErrCode, handle, readyProbed, readyOk,
                 procExitCode, earlyExit, termCalls, signals, exitWaits,
                   brVars, jobVars>>

\* waitForServer: checkServer(url) with filterOrFail; success ends the wait
\* and startDevServer returns the handle
E_waitForServer_check ==
  /\ impl = "effect" /\ pc = "build" /\ srvPc = "wait" /\ pollPc = "fetch"
  /\ ~BuildFailed /\ elapsed < READY_TIMEOUT_MS
  /\ \E ok \in BOOLEAN, d \in FetchDurations :
       /\ readyProbed' = TRUE /\ readyOk' = ok
       /\ IF ok
          THEN /\ srvPc' = "ready" /\ pollPc' = "off" /\ elapsed' = 0
               /\ handle' = [baseUrl |-> EPHEMERAL_BASE, owned |-> TRUE]
          ELSE /\ pollPc' = "sleep" /\ elapsed' = elapsed + d
               /\ UNCHANGED <<srvPc, handle>>
  /\ UNCHANGED <<unVars, impl, pc, exitCode, runErr, pickVars, baseUrlEnv, cands,
                 candIdx,
                 discProbes, probeLog, discFound, srvErr, srvErrCode, procVars, brVars,
                   jobVars>>

\* waitForServer: Effect.retry(Schedule.spaced("500 millis"))
E_waitForServer_retry ==
  /\ impl = "effect" /\ pc = "build" /\ srvPc = "wait" /\ pollPc = "sleep"
  /\ ~BuildFailed /\ elapsed < READY_TIMEOUT_MS
  /\ elapsed' = elapsed + POLL_INTERVAL_MS /\ pollPc' = "fetch"
  /\ UNCHANGED <<unVars, impl, pc, exitCode, runErr, pickVars, baseUrlEnv, cands,
                 candIdx,
                 discProbes, probeLog, discFound, srvPc, srvErr, srvErrCode, handle,
                   readyProbed, readyOk,
                 procVars, brVars, jobVars>>

\* variant of E_waitForServer_timeout: the timeout fires after one poll
\* interval instead of after the 45 s window
E_waitForServer_timeout_early ==
  /\ impl = "effect" /\ pc = "build" /\ srvPc = "wait"
  /\ ~BuildFailed /\ elapsed >= POLL_INTERVAL_MS
  /\ srvPc' = "failed" /\ srvErr' = "timeout" /\ pollPc' = "off"
  /\ UNCHANGED <<unVars, impl, pc, exitCode, runErr, pickVars, baseUrlEnv, cands,
                 candIdx,
                 discProbes, probeLog, discFound, srvErrCode, handle, elapsed,
                   readyProbed, readyOk,
                 procVars, brVars, jobVars>>

\* waitForServer: Effect.timeout("45 seconds") interrupts the retry loop,
\* catchTag("TimeoutException") fails with the timed-out error
E_waitForServer_timeout ==
  /\ impl = "effect" /\ pc = "build" /\ srvPc = "wait"
  /\ ~BuildFailed /\ elapsed >= READY_TIMEOUT_MS
  /\ srvPc' = "failed" /\ srvErr' = "timeout" /\ pollPc' = "off"
  /\ UNCHANGED <<unVars, impl, pc, exitCode, runErr, pickVars, baseUrlEnv, cands,
                 candIdx,
                 discProbes, probeLog, discFound, srvErrCode, handle, elapsed,
                   readyProbed, readyOk,
                 procVars, brVars, jobVars>>

\* the spawned process exits on its own; nothing in startDevServer observes it
E_procExit ==
  /\ impl = "effect" /\ pc # "exit" /\ procState = "running"
  /\ \E code \in ExitCodes : procState' = "exited" /\ procExitCode' = code
  /\ earlyExit' = (srvPc = "wait")
  /\ UNCHANGED <<unVars, impl, pc, exitCode, runErr, pickVars, srvVars, spawnCount,
                 termCalls, signals, exitWaits, brVars, jobVars>>

\* Browser.layer: acquire = chromium.launch() (uninterruptible)
E_Browser_launch ==
  /\ impl = "effect" /\ pc = "build" /\ brPc \in {"none", "launching"}
  /\ IF brPc = "none"
     THEN /\ ~BuildFailed
          /\ brPc' = "launching" /\ UNCHANGED launchCount
     ELSE \E ok \in BOOLEAN :
            IF ok THEN brPc' = "open" /\ launchCount' = launchCount + 1
                  ELSE brPc' = "launchFailed" /\ UNCHANGED launchCount
  /\ UNCHANGED <<unVars, impl, pc, exitCode, runErr, pickVars, srvVars, procVars,
                 brCloseCalls, jobVars>>

\* Layer.mergeAll: one layer failed; the other fiber is interrupted (an
\* acquire in flight completes first) and the scope is closed
E_buildFailed ==
  /\ impl = "effect" /\ pc = "build" /\ BuildFailed /\ brPc # "launching"
  /\ srvPc' = IF srvPc \in {"idle", "discover", "spawn", "wait"}
              THEN "interrupted" ELSE srvPc
  /\ pollPc' = "off"
  /\ IF Probing THEN ProbeSettle("aborted") ELSE UNCHANGED <<discProbes, probeLog>>
  /\ pc' = "release"
  /\ runErr' = IF srvPc = "failed" THEN "server" ELSE "launch"
  /\ UNCHANGED <<unVars, impl, exitCode, pickVars, baseUrlEnv, cands, candIdx,
                 discFound,
                 srvErr, srvErrCode, handle, elapsed, readyProbed, readyOk, procVars,
                 brVars, jobVars>>

\* program: mkdirSync, pickSpecs, the empty-list return; all captureSpec
\* effects are handed to Effect.forEach
E_pickSpecsFrom(D, O) ==
  /\ impl = "effect" /\ pc = "build" /\ srvPc = "ready" /\ brPc = "open"
  /\ \E docs \in D, env \in O :
       LET cin == buildDocSpecs(docs)
           r == pickSpecs(getOnlyFilter(env), cin)
       IN /\ candIn' = cin /\ onlyEnv' = env
          /\ SetJobs(r)
          /\ pc' = IF Len(r.specs) = 0 THEN "release" ELSE "capture"
  /\ UNCHANGED <<unVars, impl, exitCode, runErr, srvVars, procVars, brVars, jobIdx,
                 files>>

E_program_pickSpecs == E_pickSpecsFrom(MainDocs, MainOnly)

E_job(i, to) == jobPc' = [jobPc EXCEPT ![i] = to]

\* job i starts, or one of its browser operations settles
E_log(i, ev) == jobLog' = [jobLog EXCEPT ![i] = Append(@, ev)]

\* captureSpec: the fiber starts and issues browser.newPage
E_captureSpec_start(i) ==
  /\ impl = "effect" /\ pc = "capture" /\ jobPc[i] = "pending" /\ ~FailedSeen
  /\ E_job(i, "opening")
  /\ E_log(i, StartEv)
  /\ UNCHANGED <<unVars, impl, pc, exitCode, runErr, pickVars, srvVars, procVars,
                 brVars,
                 jobIdx, pageOpens, pageCloses, files, navUrl>>

\* captureSpec: acquire of acquireRelease, browser.newPage settles
\* (uninterruptible: a page opened under interruption is released at once)
E_captureSpec_newPage(i) ==
  /\ impl = "effect" /\ pc = "capture" /\ jobPc[i] = "opening"
  /\ \E ok \in BOOLEAN :
       IF ok
       THEN /\ pageOpens' = [pageOpens EXCEPT ![i] = @ + 1]
            /\ E_log(i, "open")
            /\ E_job(i, IF FailedSeen THEN "releaseInt" ELSE "page")
       ELSE /\ UNCHANGED pageOpens
            /\ E_log(i, "openFail")
            /\ E_job(i, IF FailedSeen THEN "cancelled" ELSE "failed")
  /\ UNCHANGED <<unVars, impl, pc, exitCode, runErr, pickVars, srvVars, procVars,
                 brVars,
                 jobIdx, pageCloses, files, navUrl>>

\* captureSpec: page.goto(templateURL, { waitUntil: "load" })
E_captureSpec_goto(i) ==
  /\ impl = "effect" /\ pc = "capture" /\ jobPc[i] = "page" /\ ~FailedSeen
  /\ \E ok \in BOOLEAN :
       IF ok THEN E_job(i, "navigated") /\ E_log(i, "goto")
             ELSE E_job(i, "releaseErr") /\ E_log(i, "gotoFail")
  /\ navUrl' = [navUrl EXCEPT ![i] = E_templateURL(specs[i], handle.baseUrl)]
  /\ UNCHANGED <<unVars, impl, pc, exitCode, runErr, pickVars, srvVars, procVars,
                 brVars,
                 jobIdx, pageOpens, pageCloses, files>>

\* variant of E_captureSpec_screenshot: page.goto is not awaited, so the
\* screenshot can be taken before the navigation has completed
E_captureSpec_screenshot_early(i) ==
  /\ impl = "effect" /\ pc = "capture" /\ jobPc[i] \in {"page", "navigated"}
  /\ ~FailedSeen
  /\ \E ok \in BOOLEAN :
       IF ok THEN /\ E_job(i, "shot") /\ E_log(i, "shot")
                  /\ files' = files (+) SetToBag({filePath(specs[i].slug)})
             ELSE /\ E_job(i, "releaseErr") /\ E_log(i, "shotFail")
                  /\ UNCHANGED files
  /\ UNCHANGED <<unVars, impl, pc, exitCode, runErr, pickVars, srvVars, procVars,
                 brVars,
                 jobIdx, pageOpens, pageCloses, navUrl>>

\* captureSpec: page.screenshot({ path: <OUTPUT_DIR>/<slug>.png })
E_captureSpec_screenshot(i) ==
  /\ impl = "effect" /\ pc = "capture" /\ jobPc[i] = "navigated" /\ ~FailedSeen
  /\ \E ok \in BOOLEAN :
       IF ok THEN /\ E_job(i, "shot") /\ E_log(i, "shot")
                  /\ files' = files (+) SetToBag({filePath(specs[i].slug)})
             ELSE /\ E_job(i, "releaseErr") /\ E_log(i, "shotFail")
                  /\ UNCHANGED files
  /\ UNCHANGED <<unVars, impl, pc, exitCode, runErr, pickVars, srvVars, procVars,
                 brVars,
                 jobIdx, pageOpens, pageCloses, navUrl>>

\* variant of E_captureSpec_interrupt: the interrupted fiber ends at once,
\* with no release of the page it holds
E_captureSpec_interrupt_noRelease(i) ==
  /\ impl = "effect" /\ pc = "capture" /\ FailedSeen
  /\ jobPc[i] \in {"pending", "page", "navigated", "shot"}
  /\ E_job(i, "cancelled")
  /\ UNCHANGED <<unVars, impl, pc, exitCode, runErr, pickVars, srvVars, procVars,
                 brVars,
                 jobIdx, pageOpens, pageCloses, jobLog, files, navUrl>>

\* Effect.forEach: interruption of a sibling fiber; an opened page goes to
\* its release
E_captureSpec_interrupt(i) ==
  /\ impl = "effect" /\ pc = "capture" /\ FailedSeen
  /\ jobPc[i] \in {"pending", "page", "navigated", "shot"}
  /\ E_job(i, IF jobPc[i] = "pending" THEN "cancelled" ELSE "releaseInt")
  /\ UNCHANGED <<unVars, impl, pc, exitCode, runErr, pickVars, srvVars, procVars,
                 brVars,
                 jobIdx, pageOpens, pageCloses, jobLog, files, navUrl>>

\* captureSpec: release of acquireRelease at the end of Effect.scoped,
\* page.close(); a rejection is a defect of the job
E_captureSpec_release(i) ==
  /\ impl = "effect" /\ pc = "capture"
  /\ \/ jobPc[i] = "shot" /\ ~FailedSeen
     \/ jobPc[i] \in {"releaseErr", "releaseInt"}
  /\ pageCloses' = [pageCloses EXCEPT ![i] = @ + 1]
  /\ E_log(i, "close")
  /\ \E ok \in BOOLEAN :
       E_job(i, IF jobPc[i] = "releaseInt" THEN "cancelled"
                ELSE IF jobPc[i] = "shot" /\ ok THEN "done" ELSE "failed")
  /\ UNCHANGED <<unVars, impl, pc, exitCode, runErr, pickVars, srvVars, procVars,
                 brVars,
                 jobIdx, pageOpens, files, navUrl>>

JobsSettled ==
  \A i \in 1..Len(jobPc) : jobPc[i] \in {"done", "failed", "cancelled"}

\* program: Effect.forEach(...) returns or fails once every fiber has ended
E_program_forEachEnd ==
  /\ impl = "effect" /\ pc = "capture" /\ JobsSettled
  /\ pc' = "release"
  /\ runErr' = IF FailedSeen THEN "capture" ELSE "none"
  /\ UNCHANGED <<unVars, impl, exitCode, pickVars, srvVars, procVars, brVars, jobVars>>

\* Browser.layer: release = browser.close(), run when the scope closes
E_Browser_release ==
  /\ impl = "effect" /\ pc = "release" /\ brPc = "open"
  /\ brCloseCalls' = brCloseCalls + 1
  /\ brPc' = "closed"
  /\ \E ok \in BOOLEAN :
       runErr' = IF ~ok /\ runErr = "none" THEN "close" ELSE runErr
  /\ UNCHANGED <<unVars, impl, pc, exitCode, pickVars, srvVars, procVars, launchCount,
                 jobVars>>

\* Command.start: the scope's finalizer kills the process if it still runs
E_Command_release ==
  /\ impl = "effect" /\ pc = "release" /\ procState # "none" /\ termCalls = 0
  /\ termCalls' = termCalls + 1
  /\ IF procState = "running"
     THEN signals' = signals + 1 /\ procState' = "exited"
     ELSE UNCHANGED <<signals, procState>>
  /\ UNCHANGED <<unVars, impl, pc, exitCode, runErr, pickVars, srvVars, procExitCode,
                 earlyExit,
                 spawnCount, exitWaits, brVars, jobVars>>

\* BunRuntime.runMain: the scope is closed, the process exits
E_runMain_exit ==
  /\ impl = "effect" /\ pc = "release"
  /\ brPc \notin {"open", "launching"}
  /\ procState = "none" \/ termCalls > 0
  /\ pc' = "exit"
  /\ exitCode' = IF runErr = "none" THEN 0 ELSE 1
  /\ UNCHANGED <<unVars, impl, runErr, pickVars, srvVars, procVars, brVars, jobVars>>

\* =====================================================================
\* UpdateNotifier.check : packages/cli/src/update-notifier.ts
\* =====================================================================
pipeVars ==
  <<impl, pc, exitCode, runErr, pickVars, srvVars, procVars, brVars, jobVars>>

\* variant of UN_check_start: config.isCi is not consulted
UN_check_start_noCi ==
  /\ unPc = "start"
  /\ now' = NOW /\ unPc' = "read"
  /\ UNCHANGED <<pipeVars, isCi, cacheFile, currentVersion, cached, fetched,
                 reads, fetches, cacheWrites, logged>>

\* check: if (config.isCi) return; const now = Date.now()
UN_check_start ==
  /\ unPc = "start"
  /\ IF isCi THEN unPc' = "done" /\ now' = now
             ELSE unPc' = "read" /\ now' = NOW
  /\ UNCHANGED <<pipeVars, isCi, cacheFile, currentVersion, cached, fetched,
                 reads, fetches, cacheWrites, logged>>

\* readCache: readFile, JSON.parse cast to CacheFile (not validated); a
\* missing file, an empty file and a parse error give Option.none.
\* check: a cache with nextCheck > now is fresh
UN_readCache ==
  /\ unPc = "read"
  /\ reads' = reads + 1
  /\ LET value == IF cacheFile.kind \in {"absent", "empty", "corrupt"}
                  THEN NoCache
                  ELSE [some |-> TRUE, latest |-> cacheFile.latest,
                        nextCheck |-> cacheFile.nextCheck]
     IN /\ cached' = value
        /\ unPc' = IF value.some /\ value.nextCheck > now
                   THEN "fresh" ELSE "fetch"
  /\ UNCHANGED <<pipeVars, isCi, now, cacheFile, currentVersion, fetched,
                 fetches, cacheWrites, logged>>

\* check, fresh cache: logUpdate when isNewer(cached.latest, currentVersion),
\* then return; isNewer of a missing `latest` throws inside Effect.gen, a
\* defect that catchAll does not catch
UN_cacheFresh ==
  /\ unPc = "fresh"
  /\ IF cached.latest = NoVersion
     THEN unPc' = "died" /\ UNCHANGED logged
     ELSE /\ unPc' = "done"
          /\ logged' = IF isNewer(cached.latest.text, currentVersion.text)
                        THEN Append(logged, <<currentVersion.text,
                                              cached.latest.text>>)
                        ELSE logged
  /\ UNCHANGED <<pipeVars, isCi, now, cacheFile, currentVersion, cached,
                 fetched, reads, fetches, cacheWrites>>

\* fetchLatest: a failed or aborted fetch, a non-ok response and a body
\* without `version` give Option.none, and check returns
UN_fetchLatest ==
  /\ unPc = "fetch"
  /\ fetches' = fetches + 1
  /\ \E v \in {NoVersion} \cup FetchedVersions :
       /\ fetched' = v
       /\ unPc' = IF v = NoVersion THEN "done" ELSE "write"
  /\ UNCHANGED <<pipeVars, isCi, now, cacheFile, currentVersion, cached,
                 reads, cacheWrites, logged>>

\* writeCache: mkdir, writeFile({latest, nextCheck: now + checkInterval});
\* a failure is swallowed
UN_writeCache ==
  /\ unPc = "write"
  /\ cacheWrites' = cacheWrites + 1
  /\ \E ok \in BOOLEAN :
       cacheFile' = IF ok
                    THEN [kind |-> "record", latest |-> fetched,
                          nextCheck |-> now + CHECK_INTERVAL_MS]
                    ELSE cacheFile
  /\ unPc' = "compare"
  /\ UNCHANGED <<pipeVars, isCi, now, currentVersion, cached, fetched,
                 reads, fetches, logged>>

\* check: if (isNewer(latestVersion, currentVersion)) logUpdate(...)
UN_logIfNewer ==
  /\ unPc = "compare"
  /\ unPc' = "done"
  /\ logged' = IF isNewer(fetched.text, currentVersion.text)
                THEN Append(logged, <<currentVersion.text, fetched.text>>)
                ELSE logged
  /\ UNCHANGED <<pipeVars, isCi, now, cacheFile, currentVersion, cached,
                 fetched, reads, fetches, cacheWrites>>

\* =====================================================================
\* specifications
\* =====================================================================
ScriptNext ==
  \/ S_main_pickSpecs
  \/ S_ensureTemplateServer
  \/ S_findExistingDevServer
  \/ S_spawn
  \/ S_waitForServer_check
  \/ S_waitForServer_fetch
  \/ S_waitForServer_sleep
  \/ S_childExit
  \/ S_launch
  \/ S_captureSpec_newPage
  \/ S_captureSpec_goto
  \/ S_captureSpec_screenshot
  \/ S_captureSpec_close
  \/ S_finally_browserClose
  \/ S_finally_serverClose
  \/ S_eventLoopEmpty

EffectNext ==
  \/ E_acquireServer
  \/ E_findExistingDevServer
  \/ E_startDevServer
  \/ E_waitForServer_check
  \/ E_waitForServer_retry
  \/ E_waitForServer_timeout
  \/ E_procExit
  \/ E_Browser_launch
  \/ E_buildFailed
  \/ E_program_pickSpecs
  \/ \E i \in 1..Len(jobPc) :
        \/ E_captureSpec_start(i)
        \/ E_captureSpec_newPage(i)
        \/ E_captureSpec_goto(i)
        \/ E_captureSpec_screenshot(i)
        \/ E_captureSpec_interrupt(i)
        \/ E_captureSpec_release(i)
  \/ E_program_forEachEnd
  \/ E_Browser_release
  \/ E_Command_release
  \/ E_runMain_exit

Next == ScriptNext \/ EffectNext

Spec == Init /\ [][Next]_vars

\* the program at the point where pickSpecs is applied: main() entered
\* (script), or both layers built with an explicit base URL (effect)
InitPick ==
  /\ impl \in {"script", "effect"}
  /\ UN_Off
  /\ exitCode = -1 /\ runErr = "none"
  /\ candIn = <<>> /\ onlyEnv = NULL /\ unique = <<>> /\ specs = <<>>
  /\ warnings = <<>>
  /\ cands = <<>> /\ candIdx = 0 /\ discProbes = 0 /\ probeLog = <<>> /\ discFound = NULL
  /\ srvErr = "none" /\ srvErrCode = -1
  /\ procState = "none" /\ procExitCode = -1 /\ earlyExit = FALSE
  /\ spawnCount = 0 /\ termCalls = 0 /\ signals = 0 /\ exitWaits = 0
  /\ elapsed = 0 /\ pollPc = "off" /\ readyProbed = FALSE /\ readyOk = FALSE
  /\ brCloseCalls = 0
  /\ jobPc = <<>> /\ jobIdx = 0 /\ pageOpens = <<>> /\ pageCloses = <<>>
  /\ jobLog = <<>> /\ navUrl = <<>>
  /\ files = EmptyBag
  /\ IF impl = "script"
     THEN /\ pc = "start" /\ baseUrlEnv = NULL /\ srvPc = "idle"
          /\ handle = NoHandle /\ brPc = "none" /\ launchCount = 0
     ELSE /\ pc = "build" /\ baseUrlEnv = <<"u">> /\ srvPc = "ready"
          /\ handle = [baseUrl |-> <<"u">>, owned |-> FALSE]
          /\ brPc = "open" /\ launchCount = 1

NextPick ==
  \/ S_pickSpecsFrom(PickDocs, PickOnly)
  \/ E_pickSpecsFrom(PickDocs, PickOnly)

\* pickSpecs applied to every candidate list and OG_ONLY value of the bounds
SpecPick == InitPick /\ [][NextPick]_vars

\* the program at the point where captureSpec builds its URL: one job, its
\* page open, an explicit base URL
InitNav ==
  /\ impl \in {"script", "effect"}
  /\ UN_Off
  /\ exitCode = -1 /\ runErr = "none"
  /\ \E spec \in NavSpecs :
       candIn = <<spec>> /\ unique = <<spec>> /\ specs = <<spec>>
  /\ onlyEnv = NULL /\ warnings = <<>>
  /\ baseUrlEnv \in NavBases
  /\ handle = [baseUrl |-> baseUrlEnv, owned |-> FALSE]
  /\ cands = <<>> /\ candIdx = 0 /\ discProbes = 0 /\ probeLog = <<>>
  /\ discFound = NULL
  /\ srvPc = "ready" /\ srvErr = "none" /\ srvErrCode = -1
  /\ procState = "none" /\ procExitCode = -1 /\ earlyExit = FALSE
  /\ spawnCount = 0 /\ termCalls = 0 /\ signals = 0 /\ exitWaits = 0
  /\ elapsed = 0 /\ pollPc = "off" /\ readyProbed = FALSE /\ readyOk = FALSE
  /\ brPc = "open" /\ launchCount = 1 /\ brCloseCalls = 0
  /\ pc = "capture"
  /\ jobPc = <<"page">> /\ jobIdx = IF impl = "script" THEN 1 ELSE 0
  /\ pageOpens = <<1>> /\ pageCloses = <<0>>
  /\ jobLog = <<<<"start", "open">>>> /\ navUrl = << <<>> >>
  /\ files = EmptyBag

NextNav ==
  \/ S_captureSpec_goto
  \/ \E i \in 1..Len(jobPc) : E_captureSpec_goto(i)

\* captureSpec's navigation applied to every record and base of the inputs
SpecNav == InitNav /\ [][NextNav]_vars

\* the event loop runs every continuation that is ready, timers fire
FairSpec == Spec /\ WF_vars(Next)

\* check(pkgName, currentVersion) is called once, with every configuration,
\* cache file and current version of the input sets; no pipeline runs
InitNotifier ==
  /\ impl = "script" /\ pc = "exit" /\ exitCode = 0 /\ runErr = "none"
  /\ candIn = <<>> /\ onlyEnv = NULL /\ unique = <<>> /\ specs = <<>>
  /\ warnings = <<>>
  /\ baseUrlEnv = NULL /\ cands = <<>> /\ candIdx = 0 /\ discProbes = 0 /\ probeLog = <<>>
  /\ discFound = NULL
  /\ srvPc = "idle" /\ srvErr = "none" /\ srvErrCode = -1 /\ handle = NoHandle
  /\ procState = "none" /\ procExitCode = -1 /\ earlyExit = FALSE
  /\ spawnCount = 0 /\ termCalls = 0 /\ signals = 0 /\ exitWaits = 0
  /\ elapsed = 0 /\ pollPc = "off" /\ readyProbed = FALSE /\ readyOk = FALSE
  /\ brPc = "none" /\ launchCount = 0 /\ brCloseCalls = 0
  /\ jobPc = <<>> /\ jobIdx = 0 /\ pageOpens = <<>> /\ pageCloses = <<>>
  /\ jobLog = <<>> /\ navUrl = <<>> /\ files = EmptyBag
  /\ isCi \in BOOLEAN /\ now = 0 /\ unPc = "start"
  /\ cacheFile \in CacheFiles
  /\ currentVersion \in Versions
  /\ cached = NoCache /\ fetched = NoVersion
  /\ reads = 0 /\ fetches = 0 /\ cacheWrites = 0 /\ logged = <<>>

NextNotifier ==
  \/ UN_check_start
  \/ UN_readCache
  \/ UN_cacheFresh
  \/ UN_fetchLatest
  \/ UN_writeCache
  \/ UN_logIfNewer

SpecNotifier == InitNotifier /\ [][NextNotifier]_vars

\* =====================================================================
\* properties
\* =====================================================================
Exited == pc = "exit"

\* C1: in every run that spawned an ephemeral server, the server's terminate
\* is invoked exactly once by the time the run has exited, on every exit
\* path (success, capture failure, launch failure, locator failure after
\* the spawn), and never more than once.
C1_ServerTerminatedOnce ==
  /\ termCalls <= 1
  /\ (Exited /\ spawnCount > 0) => termCalls = 1

\* C2: in every run that launched the browser, browser.close() is invoked
\* exactly once by the time the run has exited (capture succeeded, a job
\* failed, jobs were cancelled); it is never invoked while jobs are being
\* captured, and never more often than a browser was launched.
C2_BrowserClosedOnce ==
  /\ brCloseCalls <= 1
  /\ brCloseCalls <= launchCount
  /\ brCloseCalls > 0 => pc \in {"finallyServer", "awaitExit", "release",
    "exit"}
  /\ (Exited /\ launchCount > 0) => brCloseCalls = 1

C2_Witness ==
  /\ Exited /\ launchCount = 1 /\ brCloseCalls = 1
  /\ \E i \in 1..Len(jobPc) : jobPc[i] = "failed"
  /\ \E i \in 1..Len(jobPc) : jobPc[i] = "cancelled" /\ pageOpens[i] = 1

\* C3: every job closes the page it opened exactly once, also when its
\* navigation or screenshot fails: no job calls page.close() more often
\* than it opened a page, and after the run the page-close calls of each
\* job equal its successful page-open calls.
C3_PagesClosed ==
  /\ \A i \in 1..Len(jobPc) : pageCloses[i] <= pageOpens[i]
  /\ Exited => \A i \in 1..Len(jobPc) : pageCloses[i] = pageOpens[i]

\* C4: with an unowned handle (explicit base URL or discovered server) the
\* run never invokes a terminate, sends no signal and waits on no server
\* process, in any state of the run.
C4_UnownedNeverStopped ==
  (srvPc = "ready" /\ ~handle.owned) =>
    (termCalls = 0 /\ signals = 0 /\ exitWaits = 0 /\ procState = "none")

C4_Witness ==
  /\ Exited /\ srvPc = "ready" /\ ~handle.owned /\ discFound # NULL
  /\ runErr = "capture" /\ brCloseCalls = 1

SlugsOf(seq) == {seq[i].slug : i \in 1..Len(seq)}

FirstIdx(seq, s) ==
  CHOOSE i \in 1..Len(seq) :
    seq[i].slug = s /\ \A j \in 1..(i - 1) : seq[j].slug # s

\* pickSpecs has been applied (the candidate list always holds the home job)
Picked == candIn # <<>>

\* C5: the de-duplicated list holds each distinct identifier of the
\* candidate list exactly once, the record kept for an identifier is its
\* first occurrence, and the kept records are in input order.
C5_Dedup ==
  Picked =>
    /\ SlugsOf(unique) = SlugsOf(candIn)
    /\ Len(unique) = Cardinality(SlugsOf(candIn))
    /\ \A i \in 1..Len(unique) :
         unique[i] = candIn[FirstIdx(candIn, unique[i].slug)]
    /\ \A i, j \in 1..Len(unique) :
         i < j => FirstIdx(candIn, unique[i].slug) < FirstIdx(candIn,
           unique[j].slug)

C5_Witness ==
  /\ Picked /\ Len(unique) = 2 /\ Len(candIn) = 3
  /\ candIn[2].slug = candIn[3].slug /\ candIn[2] # candIn[3]
  /\ unique[2] = candIn[2]
  /\ Len(warnings) >= 1

AllowList == getOnlyFilter(onlyEnv)

NoMatch == \A i \in 1..Len(unique) : unique[i].slug \notin Range(AllowList)

HasFallbackWarning ==
  \E k \in 1..Len(warnings) : warnings[k].kind = "fallback"

\* C6: a non-empty allow-list that matches none of the de-duplicated jobs
\* leaves the effective job set equal to the full de-duplicated set and a
\* warning is emitted; the allow-list never empties the effective set.
C6_FilterFallback ==
  Picked =>
    /\ (Len(AllowList) > 0 /\ NoMatch) => (specs = unique /\ HasFallbackWarning)
    /\ Len(unique) > 0 => Len(specs) > 0

C6_Witness ==
  /\ Picked /\ Len(AllowList) > 0 /\ NoMatch
  /\ specs = unique /\ Len(specs) >= 2 /\ HasFallbackWarning

\* OG_BASE_URL holds URL text (not only blanks and slashes)
ExplicitConfigured ==
  /\ baseUrlEnv # NULL
  /\ \E i \in 1..Len(baseUrlEnv) : baseUrlEnv[i] \notin {" ", "/"}

\* C7: with an explicit base URL configured, acquire returns that URL
\* (trimmed, one trailing slash dropped) unowned, and no discovery probe, no
\* readiness probe and no spawn happens in the run.
C7_ExplicitBypass ==
  ExplicitConfigured =>
    /\ srvPc = "ready" /\ ~handle.owned
    /\ \/ handle.baseUrl = Trim(baseUrlEnv)
       \/ handle.baseUrl \o <<"/">> = Trim(baseUrlEnv)
    /\ discProbes = 0 /\ ~readyProbed
    /\ spawnCount = 0 /\ procState = "none"

C7_Witness ==
  /\ ExplicitConfigured /\ Exited /\ exitCode = 0
  /\ baseUrlEnv = <<" ", "u", "/", " ">> /\ handle.baseUrl = <<"u">>

\* C8: once a discovery candidate has answered its probe with a success
\* status, no ephemeral server is spawned and the handle returned is the
\* unowned handle of that candidate.
C8_DiscoveryPrecedence ==
  discFound # NULL =>
    /\ spawnCount = 0 /\ procState = "none"
    /\ srvPc = "ready" /\ ~handle.owned
    /\ \/ handle.baseUrl = discFound
       \/ handle.baseUrl \o <<"/">> = discFound

C8_Witness ==
  /\ discFound # NULL /\ discProbes >= 2 /\ Exited /\ exitCode = 0

WaitTimedOut ==
  srvPc = "failed" /\ srvErr = "timeout" /\ elapsed >= READY_TIMEOUT_MS

\* the wait ended for a reason other than its own clock: a probe succeeded,
\* the child exited (script), or the build was interrupted (effect)
WaitEndedOtherwise ==
  \/ srvPc = "ready"
  \/ srvPc = "failed" /\ srvErr = "exit"
  \/ srvPc = "interrupted"

\* C9: a readiness wait never lasts forever: unless a probe succeeds, the
\* child's exit ends it or the build is interrupted, it ends in the
\* readiness-timeout failure, and that failure comes only once the 45 s
\* window has elapsed.
C9_ReadinessTimeout ==
  (srvPc = "wait") ~> (WaitTimedOut \/ WaitEndedOtherwise)

C9_Witness ==
  /\ WaitTimedOut /\ procState = "running" /\ readyProbed
  /\ spawnCount = 1

\* C10: when the spawned process exits during the readiness wait, the wait
\* ends at that exit and acquire fails with the server-start failure that
\* carries the exit code (not with the readiness timeout).
C10_EarlyExit ==
  earlyExit =>
    /\ srvPc = "failed" /\ srvErr = "exit"
    /\ srvErrCode = procExitCode

\* job i has started and has not ended
InFlight(i) ==
  jobPc[i] \in {"opening", "page", "navigated", "shot", "releaseErr", "releaseInt"}

\* C11: fail-fast capture: no job starts after a job has failed, and a run
\* in which a job failed ends with no job left in flight and with that
\* capture failure as its result.
C11_FailFast ==
  /\ \A i \in 1..Len(jobLog) : "lateStart" \notin Range(jobLog[i])
  /\ (Exited /\ FailedSeen) =>
       /\ \A i \in 1..Len(jobPc) : ~InFlight(i)
       /\ runErr = "capture"

\* every job of the effective set ran to its end without a failure
AllCaptured == \A i \in 1..Len(jobPc) : jobPc[i] = "done"

\* C12: the run exits with code 0 only when the job list was computed and
\* every job of it was captured (or the list was empty), it exits with code 0
\* whenever that is so and no error was raised, and it exits with a non-zero
\* code when target acquisition, the browser launch or a capture job failed;
\* the warnings printed play no part.
C12_ExitCode ==
  Exited =>
    /\ exitCode = 0 => (Picked /\ AllCaptured)
    /\ (Picked /\ AllCaptured /\ runErr = "none") => exitCode = 0
    /\ (srvPc = "failed" \/ brPc = "launchFailed" \/ FailedSeen) =>
         exitCode # 0

\* acquiring the render target or launching the browser has failed
InfraFailed == srvPc = "failed" \/ brPc = "launchFailed"

\* C14: when acquiring the render target (readiness timeout, server start
\* failure) or the browser launch has failed, no capture job has started or
\* ever starts, no page is opened and no image file is written, and the run
\* exits with a non-zero code.
C14_InfraFatal ==
  InfraFailed =>
    /\ \A i \in 1..Len(jobPc) :
         jobPc[i] = "pending" /\ jobLog[i] = <<>> /\ pageOpens[i] = 0
    /\ files = EmptyBag
    /\ Exited => exitCode # 0

C14_Witness ==
  /\ Exited /\ exitCode = 1 /\ brPc = "launchFailed"
  /\ srvPc = "ready" /\ handle.owned /\ Len(jobPc) > 0

\* the run has ended with every job of the effective set captured and no
\* error raised
FullySuccessful == Exited /\ Picked /\ AllCaptured /\ runErr = "none"

PathsOf(seq) == {filePath(seq[i].slug) : i \in 1..Len(seq)}

\* C15: no path is written more than once in a run, every path written is
\* <OUTPUT_DIR>/<slug>.png of a job of the effective set, and after a fully
\* successful run the written paths are exactly those of the effective set,
\* one file per job.
C15_OneFilePerJob ==
  /\ \A p \in BagToSet(files) : CopiesIn(p, files) = 1
  /\ BagToSet(files) \subseteq PathsOf(specs)
  /\ FullySuccessful =>
       /\ BagToSet(files) = PathsOf(specs)
       /\ BagCardinality(files) = Len(specs)

C15_Witness ==
  /\ FullySuccessful /\ exitCode = 0 /\ impl = "effect"
  /\ Len(specs) = 2 /\ BagCardinality(files) = 2

\* C18 (Effect pipeline): a job cancelled because a sibling failed has closed
\* the page it had opened, and when a failed run has ended every page that
\* any job opened has been closed.
C18_CancelledPagesClosed ==
  impl = "effect" =>
    /\ \A i \in 1..Len(jobPc) :
         jobPc[i] = "cancelled" => pageCloses[i] = pageOpens[i]
    /\ (Exited /\ runErr # "none") =>
         \A i \in 1..Len(jobPc) : pageCloses[i] = pageOpens[i]

C18_Witness ==
  /\ impl = "effect" /\ Exited /\ runErr = "capture"
  /\ \E i \in 1..Len(jobPc) :
       /\ jobPc[i] = "cancelled"
       /\ jobLog[i] = <<"start", "open", "goto", "close">>
       /\ pageOpens[i] = 1 /\ pageCloses[i] = 1

\* job i starts: its captureSpec is entered and issues browser.newPage
StartJob(i) ==
  \/ E_captureSpec_start(i)
  \/ S_captureSpec_newPage /\ jobIdx = i

\* C19: all jobs of the effective set are submitted together: while jobs are
\* being captured and none has failed, every job that has not started can
\* start at once, whatever the other jobs are doing (the start of a job
\* never waits for another job to complete).
C19_UnboundedConcurrency ==
  (pc = "capture" /\ ~FailedSeen) =>
    \A i \in 1..Len(jobPc) : jobPc[i] = "pending" => ENABLED StartJob(i)

\* position of the first entry of log that is in evs (0 when there is none)
FirstOf(log, evs) ==
  IF \E k \in 1..Len(log) : log[k] \in evs
  THEN CHOOSE k \in 1..Len(log) :
         log[k] \in evs /\ \A j \in 1..(k - 1) : log[j] \notin evs
  ELSE 0

\* in log, every entry of `later` comes directly after an entry of `earlier`
\* and is the only entry of `later`
Follows(log, later, earlier) ==
  \A k \in 1..Len(log) :
    log[k] \in later =>
      /\ k > 1 /\ log[k - 1] \in earlier
      /\ \A j \in 1..Len(log) : (log[j] \in later) => j = k

\* the steps of one job in the order open -> navigate -> screenshot, each
\* step issued only after the step before it has completed
StepsInOrder(log) ==
  /\ Follows(log, {"open", "openFail"}, {"start"})
  /\ Follows(log, {"goto", "gotoFail"}, {"open"})
  /\ Follows(log, {"shot", "shotFail"}, {"goto"})
  /\ \A k \in 1..Len(log) : log[k] = "close" => k = Len(log) /\ k > 1

NumNewer(l, c) ==
  \/ l[1] > c[1]
  \/ l[1] = c[1] /\ l[2] > c[2]
  \/ l[1] = c[1] /\ l[2] = c[2] /\ l[3] > c[3]

\* CI mode is off and the cache read holds a latest version and a nextCheck
\* later than the current time
FreshCacheRead ==
  /\ ~isCi /\ cached.some /\ cached.latest # NoVersion
  /\ cached.nextCheck > now

\* C16: with CI mode off and a cache whose nextCheck is later than the
\* current time, check() issues no registry fetch and does not write the
\* cache, and when it has returned it has printed the update hint exactly
\* when the cached latest version is strictly newer than the current one
\* (numerically by major, then minor, then patch), and at most once.
C16_FreshCache ==
  FreshCacheRead =>
    /\ fetches = 0 /\ cacheWrites = 0
    /\ cacheFile = [kind |-> "record", latest |-> cached.latest,
                    nextCheck |-> cached.nextCheck]
    /\ Len(logged) <= 1
    /\ logged # <<>> =>
         /\ NumNewer(cached.latest.nums, currentVersion.nums)
         /\ logged[1] = <<currentVersion.text, cached.latest.text>>
    /\ unPc = "done" =>
         (logged # <<>> <=> NumNewer(cached.latest.nums, currentVersion.nums))

C16_Witness ==
  /\ FreshCacheRead /\ unPc = "done" /\ logged # <<>>
  /\ cached.latest.nums = <<9, 10, 0>> /\ currentVersion.nums = <<9, 9, 10>>

\* C17: with config.isCi set, check() reads no cache, issues no fetch,
\* writes no cache and prints nothing, whatever the cache file holds.
C17_CiSkips ==
  (isCi /\ unPc # "off") =>
    /\ unPc \in {"start", "done"}
    /\ reads = 0 /\ fetches = 0 /\ cacheWrites = 0 /\ logged = <<>>
    /\ cached = NoCache /\ fetched = NoVersion

C17_Witness ==
  /\ isCi /\ unPc = "done"
  /\ cacheFile.kind = "record" /\ cacheFile.nextCheck > NOW
  /\ NumNewer(cacheFile.latest.nums, currentVersion.nums)

\* the outcomes that count as unreachable
Unreachable == {"bad", "timeout"}

\* the candidates probed so far, in the order the probes were issued
ProbedCands == [k \in 1..Len(probeLog) |-> probeLog[k].cand]

IsPrefix(p, l) ==
  Len(p) <= Len(l) /\ \A k \in 1..Len(p) : p[k] = l[k]

\* the handle was adopted from the discovery scan
Discovered == srvPc = "ready" /\ ~handle.owned /\ discProbes > 0

\* C21: discovery is a short-circuiting sequential scan in preference order:
\* the probes issued are those of a prefix of the candidate list, in list
\* order; every probe but the last one issued has settled as unreachable (so
\* candidate k is probed only after candidates 1..k-1 were found unreachable,
\* and nothing is probed after a reachable candidate); at most one probe is
\* in flight; the adopted base URL is that of the last candidate probed,
\* which answered with a success status.
C21_SequentialScan ==
  /\ \E dd \in DefaultDevInputs :
       /\ IsPrefix(ProbedCands, Candidates(dd))
       /\ srvPc = "discover" => cands = Candidates(dd) /\ candIdx \in
            {Len(probeLog), Len(probeLog) + 1}
  /\ \A k \in 1..Len(probeLog) :
       k < Len(probeLog) => probeLog[k].out \in Unreachable
  /\ Cardinality({k \in 1..Len(probeLog) : probeLog[k].out = "pending"}) <= 1
  /\ Discovered =>
       /\ probeLog # <<>>
       /\ probeLog[Len(probeLog)].out = "ok"
       /\ handle.baseUrl = StripTrailingSlash(probeLog[Len(probeLog)].cand)

\* the third candidate was adopted after two unreachable ones, and captured
C21_Witness ==
  /\ Discovered /\ Len(probeLog) = 3 /\ probeLog[1].out = "bad"
  /\ probeLog[2].out = "bad" /\ handle.baseUrl = LOCALHOST_3000
  /\ \E i \in 1..Len(jobLog) : "goto" \in Range(jobLog[i])

\* every candidate of the list has been probed and found unreachable
AllUnreachable ==
  /\ \E dd \in DefaultDevInputs : ProbedCands = Candidates(dd)
  /\ \A k \in 1..Len(probeLog) : probeLog[k].out \in Unreachable

\* C22: a discovery probe that gets no answer within the per-candidate
\* timeout, fails to connect or gets a non-success status counts as
\* unreachable: it does not fail acquire, and the scan goes on to the next
\* candidate; when every candidate is unreachable in one of these ways,
\* acquire goes to the ephemeral launch (a build interrupted by a failed
\* browser launch aside).
C22_UnreachableTolerated ==
  /\ \A k \in 1..Len(probeLog) :
       probeLog[k].out \in Unreachable =>
         /\ srvErr # "probeTimeout"
         /\ \/ k < Len(probeLog)
            \/ srvPc = "discover" /\ candIdx = k + 1 /\ candIdx <= Len(cands)
            \/ AllUnreachable
            \/ srvPc = "interrupted"
  /\ AllUnreachable =>
       \/ srvPc = "spawn"
       \/ spawnCount = 1
       \/ srvPc = "interrupted"

\* the readiness wait has ended in failure: its timeout elapsed, or the
\* spawned process exited early
WaitFailed == srvPc = "failed" /\ srvErr \in {"timeout", "exit"}

\* C23: once the readiness wait has ended in failure, no poll loop of that
\* wait is running: the loop is at none of its steps (condition, fetch,
\* sleep), so no further readiness probe can be issued.
C23_NoDanglingPoll == WaitFailed => pollPc = "off"

\* the wait failed by timeout after probes were issued, the process having
\* exited during the wait, and the run is over
C23_Witness ==
  /\ WaitFailed /\ srvErr = "timeout" /\ readyProbed /\ earlyExit /\ Exited

\* a capture job has started
JobStarted == \E i \in 1..Len(jobLog) : jobLog[i] # <<>>

\* C24: in every state of a run at most one browser has been launched and at
\* most one server process has been spawned; from the start of the capture
\* phase on the numbers stay what they were when it began (one browser; one
\* server process exactly when the handle is owned), whatever the number of
\* jobs: no capture job launches a browser or spawns a server.
C24_SingleInfrastructure ==
  /\ launchCount <= 1 /\ spawnCount <= 1
  /\ pc = "capture" \/ JobStarted =>
       /\ launchCount = 1
       /\ spawnCount = IF handle.owned THEN 1 ELSE 0

\* two jobs were captured against an ephemeral server
C24_Witness ==
  /\ Len(specs) >= 2 /\ AllCaptured /\ handle.owned /\ Exited
  /\ launchCount = 1 /\ spawnCount = 1

\* the query string of a URL text: what follows its first "?"
RECURSIVE QueryOf(_)
QueryOf(url) ==
  IF url = <<>> THEN <<>>
  ELSE IF Head(url) = "?" THEN Tail(url) ELSE QueryOf(Tail(url))

\* the text split at every sep
RECURSIVE SplitAt(_, _, _)
SplitAt(t, sep, cur) ==
  IF t = <<>> THEN <<cur>>
  ELSE IF Head(t) = sep THEN <<cur>> \o SplitAt(Tail(t), sep, <<>>)
  ELSE SplitAt(Tail(t), sep, Append(cur, Head(t)))

\* percent-decoding of a form-urlencoded name or value
RECURSIVE UrlDecode(_)
UrlDecode(t) ==
  IF t = <<>> THEN <<>>
  ELSE IF Head(t) = "+" THEN <<" ">> \o UrlDecode(Tail(t))
  ELSE IF Head(t) = "%" /\ Len(t) >= 3
    THEN (CASE <<t[2], t[3]>> = <<"2", "B">> -> <<"+">>
            [] <<t[2], t[3]>> = <<"2", "6">> -> <<"&">>
            [] <<t[2], t[3]>> = <<"3", "D">> -> <<"=">>
            [] <<t[2], t[3]>> = <<"2", "5">> -> <<"%">>
            [] <<t[2], t[3]>> = <<"3", "F">> -> <<"?">>
            [] OTHER -> <<"%", t[2], t[3]>>)
         \o UrlDecode(SubSeq(t, 4, Len(t)))
  ELSE <<Head(t)>> \o UrlDecode(Tail(t))

\* one name=value segment of a query: split at the first "="
ParsePair(seg) ==
  LET eq == {k \in 1..Len(seg) : seg[k] = "="}
      at == IF eq = {} THEN Len(seg) + 1
            ELSE CHOOSE k \in eq : \A j \in eq : k <= j
      name == UrlDecode(SubSeq(seg, 1, at - 1))
  IN <<IF Len(name) = 1 THEN name[1] ELSE name,
       UrlDecode(SubSeq(seg, at + 1, Len(seg)))>>

\* the query parameters a URL text carries, in order
ParseParams(url) ==
  LET segs == SelectSeq(SplitAt(QueryOf(url), "&", <<>>), LAMBDA g : g # <<>>)
  IN [k \in 1..Len(segs) |-> ParsePair(segs[k])]

\* the display fields of a job that hold a non-empty value
DisplayParams(spec) ==
  {<<key, spec[key]>> : key \in {k \in {"title", "subtitle", "background"} :
                                   Truthy(spec[k])}}

\* C25: for every job, the query parameters of the URL given to page.goto
\* are exactly the job's display fields (title, subtitle, background) that
\* hold a non-empty value, each once and set to that value; a field that is
\* absent or the empty string yields no parameter, and the slug is never
\* sent.
C25_NavigationParams ==
  \A i \in 1..Len(navUrl) :
    navUrl[i] # <<>> =>
      LET params == ParseParams(navUrl[i]) IN
      /\ Range(params) = DisplayParams(specs[i])
      /\ Len(params) = Cardinality(DisplayParams(specs[i]))
      /\ \A k \in 1..Len(params) : params[k][1] # "slug"

\* a job with an empty title, a subtitle of reserved characters and a
\* background has navigated, from a base URL that carries a slug parameter
C25_Witness ==
  /\ Len(navUrl) = 1 /\ navUrl[1] # <<>>
  /\ specs[1].title = <<>> /\ specs[1].background = <<"g">>
  /\ specs[1].subtitle = <<"x", " ", "&", "=", "%", "+", "?">>
  /\ baseUrlEnv # <<"u">>
  /\ ParseParams(navUrl[1]) =
       <<<<"subtitle", specs[1].subtitle>>, <<"background", <<"g">>>>>>

\* OG_ONLY is unset, empty, or holds only blank entries
OnlyBlank ==
  onlyEnv = NULL \/ \A k \in 1..Len(onlyEnv) : onlyEnv[k] \in {" ", ","}

\* the de-duplicated jobs whose identifier is in the allow-list, in
\* de-duplicated order
Matches == SelectSeq(unique, LAMBDA x : x.slug \in Range(AllowList))

\* C26: when the allow-list is non-empty and at least one de-duplicated job's
\* identifier is in it, the effective job set is exactly the de-duplicated
\* jobs whose identifier is in the allow-list, in de-duplicated order, and no
\* warning is emitted for the filter; when the allow-list is empty or holds
\* only blank entries, the effective set is the full de-duplicated set.
C26_AllowListMatch ==
  Picked =>
    /\ (Len(AllowList) > 0 /\ ~NoMatch) =>
         (specs = Matches /\ ~HasFallbackWarning)
    /\ OnlyBlank => (specs = unique /\ ~HasFallbackWarning)
    /\ OnlyBlank <=> Len(AllowList) = 0

\* OG_ONLY = "b,a" against the de-duplicated list home, a, b
C26_Witness ==
  /\ Picked /\ onlyEnv = <<"b", ",", "a">>
  /\ Len(unique) = 3 /\ unique[2].slug = <<"a">> /\ unique[3].slug = <<"b">>
  /\ specs = <<unique[2], unique[3]>>

\* the capture phase has ended and the run has not exited
TeardownBegun ==
  pc \in {"finally", "finallyServer", "awaitExit", "release"}

\* a step of the teardown: a release is invoked, the signalled process
\* exits, the run exits
TeardownStep ==
  \/ S_finally_browserClose
  \/ S_finally_serverClose
  \/ S_childExit
  \/ E_Browser_release
  \/ E_Command_release
  \/ E_runMain_exit

\* C27: once the capture phase has ended the teardown can always go on until
\* the run exits: in every state of the teardown one of its steps is ready,
\* also when the owned server process had exited on its own after it became
\* ready and before the teardown began. (Each step moves the teardown
\* forward, so with a step always ready it completes; a teardown with no
\* step ready never does.)
C27_TeardownTerminates == TeardownBegun => ENABLED TeardownStep

\* the teardown has begun: the browser's close or the server's terminate
\* has been invoked
TeardownInvoked == brCloseCalls > 0 \/ termCalls > 0

\* C28: from the moment the browser session is closed or the owned server is
\* terminated, no capture job is in flight and every page opened during the
\* run has been closed (so no page is opened and no navigation is issued
\* after the teardown has begun: either would leave a job in flight with a
\* page open).
C28_TeardownOrdering ==
  TeardownInvoked =>
    \A i \in 1..Len(jobPc) :
      /\ ~InFlight(i)
      /\ pageCloses[i] = pageOpens[i]

\* the close of job i's page was invoked after its screenshot and failed
PageCloseFailed(i) ==
  /\ jobPc[i] = "failed" /\ Len(jobLog[i]) >= 2
  /\ SubSeq(jobLog[i], Len(jobLog[i]) - 1, Len(jobLog[i])) = <<"shot", "close">>

\* C29: the release steps of the teardown are independent: in a run that has
\* ended, the browser's close having been invoked (whatever its outcome)
\* means the owned server's terminate was invoked too, and a failed page
\* close means the browser's close was invoked.
C29_IndependentReleases ==
  Exited =>
    /\ (brCloseCalls >= 1 /\ handle.owned) => termCalls >= 1
    /\ (\E i \in 1..Len(jobPc) : PageCloseFailed(i)) => brCloseCalls >= 1

\* a capture job has issued its navigation
NavigationIssued == \E i \in 1..Len(navUrl) : navUrl[i] # <<>>

\* C30: no capture job navigates to an ephemeral server before a readiness
\* probe of its template route has returned a success status, and none
\* navigates to a discovered server unless a discovery probe of that base
\* URL (the candidate, its trailing slash dropped) returned success.
C30_ReadinessGating ==
  NavigationIssued =>
    /\ handle.owned => readyOk
    /\ Discovered =>
         \E k \in 1..Len(probeLog) :
           /\ probeLog[k].out = "ok"
           /\ StripTrailingSlash(probeLog[k].cand) = handle.baseUrl

\* a job has navigated to the ephemeral server, after a readiness probe of
\* it returned a success status
C30_Witness ==
  /\ NavigationIssued /\ handle.owned /\ readyOk /\ handle.baseUrl = EPHEMERAL_BASE
  /\ \E i \in 1..Len(jobLog) : "goto" \in Range(jobLog[i])

====
